---- MODULE Spec2Model ----
(***************************************************************************)
(* A model of the LRU cache family: LRUCache (count-bounded),               *)
(* SizedLRUCache (byte-bounded subclass), DiskCache and MobileCache (the    *)
(* two-tier composition), with the JSON persistence of LRUCache.            *)
(*                                                                         *)
(* The OrderedDict `_cache` is a sequence of [key, value] records listed    *)
(* from least- to most-recently used, the order in which OrderedDict        *)
(* iterates and in which popitem(last=False) removes.                       *)
(***************************************************************************)
EXTENDS Integers, Sequences, FiniteSets, TLC

\* ------------------------------------------------------------------ bounds
NKeys == 3
MaxCap == 2
MaxOps == 5

\* ---------------------------------------------------------- Python values
\* A Python value is a tagged record; v is the sequence of its integers.
IntV(n) == [t |-> "int", v |-> <<n>>]
TupleV(s) == [t |-> "tuple", v |-> s]
\* A list holds its items in an array of alloc slots, which may be more than
\* the items: how many depends on how the list was built.
ListV(s, alloc) == [t |-> "list", v |-> s, alloc |-> alloc]
NoneV == [t |-> "None", v |-> <<>>]
BoolV(b) == [t |-> "bool", v |-> <<IF b THEN 1 ELSE 0>>]

\* CPython 3.11 list_resize: the slots of a list of size items that grows to
\* newsize items and has no room for them.
ListResize(size, newsize) ==
    LET grown == ((newsize + (newsize \div 8) + 6) \div 4) * 4
    IN IF newsize - size > grown - newsize
       THEN ((newsize + 3) \div 4) * 4
       ELSE grown
\* The slots of a list built by n appends, one item at a time (json.load).
RECURSIVE AppendAlloc(_)
AppendAlloc(n) ==
    IF n = 0 THEN 0
    ELSE LET a == AppendAlloc(n - 1)
         IN IF n <= a THEN a ELSE ListResize(n - 1, n)
\* The slots of a list built empty and extended by its n items at once
\* (pickle.load: EMPTY_LIST, then APPEND or APPENDS).
ExtendAlloc(n) == IF n = 0 THEN 0 ELSE ListResize(0, n)

Keys == 1..NKeys
\* The values the callers put: two ints and a tuple.
Values == {IntV(1), IntV(2), TupleV(<<1, 2>>)}

\* ------------------------------------------------------------ OrderedDict
KeysOf(c) == {c[i].key : i \in 1..Len(c)}
Contains(c, k) == \E i \in 1..Len(c) : c[i].key = k
IndexOf(c, k) == CHOOSE i \in 1..Len(c) : c[i].key = k
Lookup(c, k) == c[IndexOf(c, k)].value
RemoveAt(c, i) == SubSeq(c, 1, i - 1) \o SubSeq(c, i + 1, Len(c))

\* OrderedDict.move_to_end(key): the entry becomes the last one.
MoveToEnd(c, k) == Append(RemoveAt(c, IndexOf(c, k)), c[IndexOf(c, k)])

\* OrderedDict.__setitem__: an existing key keeps its place, a new one is last.
SetItem(c, k, v) ==
    IF Contains(c, k)
    THEN [c EXCEPT ![IndexOf(c, k)].value = v]
    ELSE Append(c, [key |-> k, value |-> v])

\* popitem(last=True): the last (most recently used) entry goes.
PopItemLast(c) == SubSeq(c, 1, Len(c) - 1)
\* OrderedDict.popitem(last=False): the first (least recently used) entry goes.
PopItemFirst(c) == Tail(c)

\* ------------------------------------------------------------ the instance
\* LRUCache.__init__ (and SizedLRUCache.__init__, which passes capacity 10**9).
BigCapacity == 1000000000
NewLRUCache(cap) ==
    [kind |-> "lru", capacity |-> cap, cache |-> <<>>,
     hits |-> 0, misses |-> 0, evictions |-> 0,
     max_size_bytes |-> 0, current_size_bytes |-> 0]

\* The outcome of a call: the instance after it, the value returned, whether a
\* get found the key, and the exception raised ("none" when it returned).
Outcome(s, val, hit, exc) == [s |-> s, val |-> val, hit |-> hit, exc |-> exc]

\* ---------------------------------------------------------------- LRUCache
\* A variant of get that does not refresh the recency of a hit.
LRUGetNoTouch(s, k) ==
    IF ~Contains(s.cache, k)
    THEN Outcome([s EXCEPT !.misses = @ + 1], NoneV, FALSE, "none")
    ELSE Outcome([s EXCEPT !.hits = @ + 1], Lookup(s.cache, k), TRUE, "none")
\* A variant of get that records a miss as an inserted None entry.
LRUGetInsertOnMiss(s, k) ==
    IF ~Contains(s.cache, k)
    THEN Outcome([s EXCEPT !.misses = @ + 1, !.cache = SetItem(@, k, NoneV)],
                 NoneV, FALSE, "none")
    ELSE Outcome([s EXCEPT !.hits = @ + 1, !.cache = MoveToEnd(@, k)],
                 Lookup(s.cache, k), TRUE, "none")
\* LRUCache.get
LRUGet(s, k) ==
    IF ~Contains(s.cache, k)
    THEN Outcome([s EXCEPT !.misses = @ + 1], NoneV, FALSE, "none")
    ELSE Outcome([s EXCEPT !.hits = @ + 1, !.cache = MoveToEnd(@, k)],
                 Lookup(s.cache, k), TRUE, "none")

\* An eviction that leaves the counter alone.
EvictLeastRecentlyUsedUncounted(s) ==
    [s EXCEPT !.cache = PopItemFirst(@)]
\* LRUCache._evict_least_recently_used
EvictLeastRecentlyUsed(s) ==
    [s EXCEPT !.cache = PopItemFirst(@), !.evictions = @ + 1]

\* A variant of the loop condition that tolerates one entry above capacity.
NeedsEvictionOffByOne(s) == Len(s.cache) > s.capacity + 1
\* The loop condition of LRUCache._evict_if_needed.
NeedsEviction(s) == Len(s.cache) > s.capacity

\* LRUCache._evict_if_needed
RECURSIVE EvictIfNeeded(_)
EvictIfNeeded(s) ==
    IF NeedsEviction(s)
    THEN EvictIfNeeded(EvictLeastRecentlyUsed(s))
    ELSE s

\* A variant of put that leaves an updated key where it was in the order.
LRUPutNoTouch(s, k, v) ==
    Outcome(EvictIfNeeded([s EXCEPT !.cache = SetItem(@, k, v)]), NoneV, FALSE, "none")
\* LRUCache.put
LRUPut(s, k, v) ==
    LET c1 == IF Contains(s.cache, k) THEN MoveToEnd(s.cache, k) ELSE s.cache
        c2 == SetItem(c1, k, v)
    IN Outcome(EvictIfNeeded([s EXCEPT !.cache = c2]), NoneV, FALSE, "none")

\* LRUCache.get_stats: hit_ratio is the fraction hits/total, kept as the pair
\* <<numerator, denominator>> (0.0 is <<0, 1>>).
LRUGetStats(s) ==
    LET total == s.hits + s.misses
    IN [hits |-> s.hits, misses |-> s.misses, evictions |-> s.evictions,
        hit_ratio |-> IF total > 0 THEN <<s.hits, total>> ELSE <<0, 1>>]
NoStats == [hits |-> 0, misses |-> 0, evictions |-> 0, hit_ratio |-> <<0, 1>>]

\* ----------------------------------------------------------- SizedLRUCache
\* SizedLRUCache.__init__
NewSizedLRUCache(max) ==
    [NewLRUCache(BigCapacity) EXCEPT !.kind = "sized", !.max_size_bytes = max]

\* sys.getsizeof of a value (CPython 3.11, 64 bit): a small int is 28 bytes,
\* None 16, a tuple 40 + 8 per item, a list 56 + 8 per allocated slot.
GetSizeOf(x) ==
    CASE x.t = "int" -> 28
      [] x.t = "None" -> 16
      [] x.t = "tuple" -> 40 + 8 * Len(x.v)
      [] OTHER -> 56 + 8 * x.alloc
\* The heuristic overhead for container bookkeeping.
overhead == 100
\* SizedLRUCache.size_of: keys are ints.
SizeOf(k, v) == GetSizeOf(IntV(k)) + GetSizeOf(v) + overhead

\* size_of is called anew wherever put and the eviction need a size, and
\* nothing makes it answer the same twice for one entry: a subclass may
\* override it, and sys.getsizeof follows a value that its owner makes grow.
\* grown tells how many bytes more than SizeOf each call of size_of made
\* during one put answers: item for the new item, old for the value that is
\* replaced, evicted[k] for the entry of key k when it is evicted.
Growth == {0, 64}
NoGrowth == [item |-> 0, old |-> 0, evicted |-> [k \in Keys |-> 0]]
SizeOfGrown(growth, k, v) == SizeOf(k, v) + growth

\* The names a class and its bases define: what attribute lookup on an
\* instance finds.
Attributes(kind) ==
    {"get", "put", "_evict_if_needed", "_evict_least_recently_used",
     "get_stats", "save", "load"}
    \cup (IF kind = "sized"
          THEN {"size_of", "_evict_until_space_available"}
          ELSE {})

\* A _mark_recently_used that is defined and moves the key to the end.
MarkRecentlyUsedDefined(s, k) ==
    [s |-> [s EXCEPT !.cache = MoveToEnd(@, k)], exc |-> "none"]

\* The call self._mark_recently_used(key): no class defines the name, so the
\* attribute lookup raises AttributeError and the instance is left as it is.
MarkRecentlyUsed(s, k) ==
    [s |-> s,
     exc |-> IF "_mark_recently_used" \in Attributes(s.kind)
             THEN "none" ELSE "AttributeError"]
\* The call self._record_eviction(): likewise undefined.
RecordEviction(s) ==
    [s |-> s,
     exc |-> IF "_record_eviction" \in Attributes(s.kind)
             THEN "none" ELSE "AttributeError"]

\* SizedLRUCache._evict_least_recently_used: the entry is removed and the
\* running total reduced and clamped before the eviction is recorded.
SizedEvictLeastRecentlyUsed(s, grown) ==
    IF Len(s.cache) = 0
    THEN [s |-> s, exc |-> "none"]
    ELSE LET evicted_size == SizeOfGrown(grown.evicted[s.cache[1].key],
                                         s.cache[1].key, s.cache[1].value)
             left == s.current_size_bytes - evicted_size
         IN RecordEviction([s EXCEPT !.cache = PopItemFirst(@),
                                     !.current_size_bytes =
                                         IF left < 0 THEN 0 ELSE left])

\* SizedLRUCache._evict_if_needed: an exception ends the loop.
RECURSIVE SizedEvictIfNeeded(_, _)
SizedEvictIfNeeded(s, grown) ==
    IF s.current_size_bytes > s.max_size_bytes /\ Len(s.cache) > 0
    THEN LET r == SizedEvictLeastRecentlyUsed(s, grown)
         IN IF r.exc # "none" THEN r ELSE SizedEvictIfNeeded(r.s, grown)
    ELSE [s |-> s, exc |-> "none"]

\* SizedLRUCache._evict_until_space_available
RECURSIVE EvictUntilSpaceAvailable(_, _, _)
EvictUntilSpaceAvailable(s, required_size, grown) ==
    IF s.max_size_bytes - s.current_size_bytes < required_size /\ Len(s.cache) > 0
    THEN LET r == SizedEvictLeastRecentlyUsed(s, grown)
         IN IF r.exc # "none" THEN r
            ELSE EvictUntilSpaceAvailable(r.s, required_size, grown)
    ELSE [s |-> s, exc |-> "none"]

\* SizedLRUCache.put of a resident key.
SizedPutExisting(s, k, v, item_size, grown) ==
    LET old_size == SizeOfGrown(grown.old, k, Lookup(s.cache, k))
        s1 == [s EXCEPT !.cache = SetItem(@, k, v)]
        m == MarkRecentlyUsed(s1, k)
    IN IF m.exc # "none"
       THEN Outcome(m.s, NoneV, FALSE, m.exc)
       ELSE LET s2 == [m.s EXCEPT !.current_size_bytes = @ - old_size + item_size]
                e == SizedEvictIfNeeded(s2, grown)
            IN Outcome(e.s, NoneV, FALSE, e.exc)

\* A put of a new key that adds the item size without making room first.
SizedPutNewNoRoom(s, k, v, item_size, grown) ==
    Outcome([s EXCEPT !.cache = SetItem(@, k, v),
                      !.current_size_bytes = @ + item_size],
            NoneV, FALSE, MarkRecentlyUsed(s, k).exc)

\* SizedLRUCache.put of a key that is not resident.
SizedPutNew(s, k, v, item_size, grown) ==
    LET e == EvictUntilSpaceAvailable(s, item_size, grown)
    IN IF e.exc # "none"
       THEN Outcome(e.s, NoneV, FALSE, e.exc)
       ELSE LET s1 == [e.s EXCEPT !.cache = SetItem(@, k, v)]
                m == MarkRecentlyUsed(s1, k)
            IN IF m.exc # "none"
               THEN Outcome(m.s, NoneV, FALSE, m.exc)
               ELSE Outcome([m.s EXCEPT !.current_size_bytes = @ + item_size],
                            NoneV, FALSE, "none")

\* A variant of put that checks the budget only after inserting.
SizedPutLateReject(s, k, v) ==
    LET item_size == SizeOf(k, v)
        r == IF Contains(s.cache, k)
             THEN SizedPutExisting(s, k, v, item_size, NoGrowth)
             ELSE SizedPutNew(s, k, v, item_size, NoGrowth)
    IN IF item_size > s.max_size_bytes THEN Outcome(r.s, NoneV, FALSE, "none") ELSE r
\* SizedLRUCache.put, with what its calls of size_of answer.
SizedPutGrown(s, k, v, grown) ==
    LET item_size == SizeOfGrown(grown.item, k, v)
    IN IF item_size > s.max_size_bytes
       THEN Outcome(s, NoneV, FALSE, "none")
       ELSE IF Contains(s.cache, k)
            THEN SizedPutExisting(s, k, v, item_size, grown)
            ELSE SizedPutNew(s, k, v, item_size, grown)
\* SizedLRUCache.put when size_of answers the same for an entry every time.
SizedPut(s, k, v) == SizedPutGrown(s, k, v, NoGrowth)

\* SizedLRUCache.get_stats: size_utilization is kept as the pair
\* <<current_size_bytes, max_size_bytes>>.
SizedGetStats(s) ==
    [base |-> LRUGetStats(s),
     current_size_bytes |-> s.current_size_bytes,
     max_size_bytes |-> s.max_size_bytes,
     size_utilization |-> IF s.max_size_bytes > 0
                          THEN <<s.current_size_bytes, s.max_size_bytes>>
                          ELSE <<0, 1>>]

\* The sum of size_of over the resident entries.
RECURSIVE ResidentBytes(_)
ResidentBytes(c) ==
    IF c = <<>> THEN 0 ELSE SizeOf(c[1].key, c[1].value) + ResidentBytes(Tail(c))

\* Dynamic dispatch of get and put on the memory-tier instance.
MemGet(s, k) == LRUGet(s, k)
MemPut(s, k, v) == IF s.kind = "sized" THEN SizedPut(s, k, v) ELSE LRUPut(s, k, v)

MemGetStats(s) == IF s.kind = "sized" THEN SizedGetStats(s) ELSE LRUGetStats(s)

\* ------------------------------------------------------------- persistence
\* json.dump of a value: an int is a number, None is null, and a tuple and a
\* list are both written as an array.
JsonEncode(x) ==
    CASE x.t = "int" -> [j |-> "number", v |-> x.v]
      [] x.t = "None" -> [j |-> "null", v |-> <<>>]
      [] OTHER -> [j |-> "array", v |-> x.v]
\* json.load of a value: a number is an int, null is None, an array is a list.
JsonDecode(d) ==
    CASE d.j = "number" -> IntV(d.v[1])
      [] d.j = "null" -> NoneV
      [] OTHER -> ListV(d.v, AppendAlloc(Len(d.v)))

\* The save path where one thread saves and loads: exists tells whether there
\* is a file, and capacity, entries and metrics are what its document holds.
NoFile ==
    [exists |-> FALSE, capacity |-> 0,
     entries |-> <<>>, metrics |-> [hits |-> 0, misses |-> 0, evictions |-> 0]]
\* The document json.dump writes for the given capacity, entries and metrics.
Document(capacity, entries, metrics) ==
    [exists |-> TRUE,
     capacity |-> capacity,
     entries |-> entries,
     metrics |-> metrics]
\* LRUCache.save: the document written, entries in OrderedDict order.
SaveDocument(s) ==
    Document(s.capacity,
             [i \in 1..Len(s.cache) |->
                [key |-> JsonEncode(IntV(s.cache[i].key)),
                 value |-> JsonEncode(s.cache[i].value)]],
             [hits |-> s.hits, misses |-> s.misses, evictions |-> s.evictions])
\* The loop of load over the entries: cache._cache[entry["key"]] = entry["value"].
\* A key decoded as a list is unhashable and raises TypeError.
RECURSIVE LoadEntries(_, _)
LoadEntries(c, entries) ==
    IF entries = <<>>
    THEN [c |-> c, exc |-> "none"]
    ELSE LET key == JsonDecode(entries[1].key)
         IN IF key.t = "list"
            THEN [c |-> c, exc |-> "TypeError"]
            ELSE LoadEntries(SetItem(c, key.v[1], JsonDecode(entries[1].value)),
                             Tail(entries))

NotLoaded == [exc |-> "none", s |-> NewLRUCache(0)]
\* load is a classmethod: cls(data["capacity"]) is LRUCache(capacity) or, for
\* the inherited SizedLRUCache.load, SizedLRUCache(max_size_bytes), whose
\* _capacity is the constant of its constructor. Both constructors raise
\* ValueError for an argument that is not positive.
NewInstance(kind, n) == IF kind = "sized" THEN NewSizedLRUCache(n) ELSE NewLRUCache(n)
\* cls.load: the new instance, or the exception raised.
LoadDocumentAs(kind, doc) ==
    IF ~doc.exists
    THEN [exc |-> "FileNotFoundError", s |-> NewLRUCache(0)]
    ELSE IF doc.capacity <= 0
    THEN [exc |-> "ValueError", s |-> NewLRUCache(0)]
    ELSE LET e == LoadEntries(<<>>, doc.entries)
             cache == NewInstance(kind, doc.capacity)
         IN IF e.exc # "none"
            THEN [exc |-> e.exc, s |-> NewLRUCache(0)]
            ELSE IF Len(e.c) > cache.capacity
            THEN [exc |-> "ValueError", s |-> NewLRUCache(0)]
            ELSE [exc |-> "none",
                  s |-> [cache EXCEPT
                           !.cache = e.c,
                           !.hits = doc.metrics.hits,
                           !.misses = doc.metrics.misses,
                           !.evictions = doc.metrics.evictions]]
\* LRUCache.load
LoadDocument(doc) == LoadDocumentAs("lru", doc)

\* ------------------------------------------------- the text of the save file
\* Where threads save and load, the file at the save path is its text, one
\* character per byte: json.dump writes ASCII only.
NoTextFile == [exists |-> FALSE, text |-> <<>>]

\* A JSON value as json.dump is given it and as json.load returns it: a node
\* [j, v] with j one of "number" (v the int), "float" (v mantissa and decimal
\* exponent), "string" (v its characters), "null", "true", "false", "array"
\* (v the item nodes) and "object" (v the members, each a name and a node).
Number(n) == [j |-> "number", v |-> <<n>>]
Array(items) == [j |-> "array", v |-> items]
Object(members) == [j |-> "object", v |-> members]
Member(name, value) == [name |-> name, value |-> value]
\* The node of an entry's key or value: an array has a node for each item.
Node(d) == IF d.j = "array" THEN Array([i \in 1..Len(d.v) |-> Number(d.v[i])]) ELSE d

\* data = {"capacity": ..., "entries": [{"key": ..., "value": ...}, ...],
\*         "metrics": {"hits": ..., "misses": ..., "evictions": ...}}
Data(doc) ==
    Object(<<Member(<<"c", "a", "p", "a", "c", "i", "t", "y">>, Number(doc.capacity)),
             Member(<<"e", "n", "t", "r", "i", "e", "s">>,
                    Array([i \in 1..Len(doc.entries) |->
                             Object(<<Member(<<"k", "e", "y">>, Node(doc.entries[i].key)),
                                      Member(<<"v", "a", "l", "u", "e">>, Node(doc.entries[i].value))>>)])),
             Member(<<"m", "e", "t", "r", "i", "c", "s">>,
                    Object(<<Member(<<"h", "i", "t", "s">>, Number(doc.metrics.hits)),
                             Member(<<"m", "i", "s", "s", "e", "s">>, Number(doc.metrics.misses)),
                             Member(<<"e", "v", "i", "c", "t", "i", "o", "n", "s">>, Number(doc.metrics.evictions))>>))>>)

DigitChars == <<"0", "1", "2", "3", "4", "5", "6", "7", "8", "9">>
\* An int as json.dump writes it.
RECURSIVE IntText(_)
IntText(n) ==
    IF n < 0 THEN <<"-">> \o IntText(0 - n)
    ELSE IF n < 10 THEN <<DigitChars[n + 1]>>
    ELSE IntText(n \div 10) \o <<DigitChars[(n % 10) + 1]>>
\* With indent=2 every item and member starts on a line of its own, two
\* spaces deeper than the bracket that holds it.
NewlineIndent(level) == <<"\n">> \o [i \in 1..(2 * level) |-> " "]

\* json.dump(data, f, indent=2): the text written for a node at a depth.
RECURSIVE JsonDump(_, _)
RECURSIVE DumpItems(_, _)
RECURSIVE DumpMembers(_, _)
JsonDump(d, level) ==
    CASE d.j = "number" -> IntText(d.v[1])
      [] d.j = "null" -> <<"n", "u", "l", "l">>
      [] d.j = "array" ->
           IF d.v = <<>> THEN <<"[", "]">>
           ELSE <<"[">> \o DumpItems(d.v, level + 1) \o NewlineIndent(level) \o <<"]">>
      [] OTHER ->
           IF d.v = <<>> THEN <<"{", "}">>
           ELSE <<"{">> \o DumpMembers(d.v, level + 1) \o NewlineIndent(level) \o <<"}">>
DumpItems(items, level) ==
    IF items = <<>> THEN <<>>
    ELSE NewlineIndent(level) \o JsonDump(items[1], level)
         \o (IF Len(items) > 1 THEN <<",">> ELSE <<>>)
         \o DumpItems(Tail(items), level)
DumpMembers(members, level) ==
    IF members = <<>> THEN <<>>
    ELSE NewlineIndent(level) \o <<"\"">> \o members[1].name \o <<"\"", ":", " ">>
         \o JsonDump(members[1].value, level)
         \o (IF Len(members) > 1 THEN <<",">> ELSE <<>>)
         \o DumpMembers(Tail(members), level)

\* The text save writes for a document.
SaveText(doc) == JsonDump(Data(doc), 0)

\* A write of new at offset 0 of a file holding old: what lies past the end
\* of the new bytes stays.
Overwrite(old, new) == new \o SubSeq(old, Len(new) + 1, Len(old))
\* open(filepath, "w"): the file is created or cut to length zero.
OpenForWrite == [exists |-> TRUE, text |-> <<>>]
\* json.dump and close on a file object opened earlier: the text goes to the
\* start of the file as it is now, and the file is not cut again, so what
\* another writer put beyond the end of this document stays.
DumpInto(f, doc) == [exists |-> TRUE, text |-> Overwrite(f.text, SaveText(doc))]

\* FileIO.readall, by which f.read() of json.load(f) reads the file: the
\* buffer is one byte larger than the file was at fstat (8192 bytes for an
\* empty file); each read asks for the room left in it, after making room
\* when there is none, and the first read that returns nothing ends it.
SmallChunk == 8192
NewBufferSize(currentsize) ==
    currentsize + (IF currentsize > 65536 THEN currentsize \div 8
                   ELSE IF 256 + currentsize < SmallChunk THEN SmallChunk
                   ELSE 256 + currentsize)
FirstBufferSize(f) == IF Len(f.text) > 0 THEN Len(f.text) + 1 ELSE SmallChunk
RoomFor(bufsize, bytes_read) ==
    IF bytes_read >= bufsize THEN NewBufferSize(bytes_read) ELSE bufsize
\* os.read at offset pos of at most n bytes.
ReadAt(f, pos, n) ==
    SubSeq(f.text, pos + 1, IF pos + n < Len(f.text) THEN pos + n ELSE Len(f.text))

\* json.load: the scanner of the json module over the characters json.dump
\* writes for these documents (no backslash, no ".", no capital letter).
\* A scan gives the node and the index after it, or fails.
Scanned(node, end) == [ok |-> TRUE, val |-> node, end |-> end]
NoScan == [ok |-> FALSE, val |-> [j |-> "null", v |-> <<>>], end |-> 0]
At(s, i, c) == i <= Len(s) /\ s[i] = c
IsDigit(s, i) == i <= Len(s) /\ s[i] \in {DigitChars[d] : d \in 1..10}
DigitAt(s, i) == (CHOOSE d \in 1..10 : DigitChars[d] = s[i]) - 1

\* WHITESPACE.match(s, i).end()
RECURSIVE SkipWhitespace(_, _)
SkipWhitespace(s, i) ==
    IF i <= Len(s) /\ s[i] \in {" ", "\n", "\t", "\r"} THEN SkipWhitespace(s, i + 1) ELSE i

\* scanstring from the character after the opening quote: the string ends at
\* the next quote, and a control character inside it is an error.
RECURSIVE ScanString(_, _, _)
ScanString(s, i, acc) ==
    IF i > Len(s) \/ s[i] \in {"\n", "\t", "\r"} THEN NoScan
    ELSE IF s[i] = "\"" THEN Scanned([j |-> "string", v |-> acc], i + 1)
    ELSE ScanString(s, i + 1, Append(acc, s[i]))

\* The digits from i on: their value after n, and the index after them.
RECURSIVE ScanDigits(_, _, _)
ScanDigits(s, i, n) ==
    IF IsDigit(s, i) THEN ScanDigits(s, i + 1, 10 * n + DigitAt(s, i))
    ELSE [n |-> n, end |-> i]

\* A number: -?(0|[1-9][0-9]*) and, when an exponent follows, a float.
ScanNumber(s, i) ==
    LET neg == At(s, i, "-")
        b == IF neg THEN i + 1 ELSE i
    IN IF ~IsDigit(s, b) THEN NoScan
       ELSE LET int == IF s[b] = "0" THEN [n |-> 0, end |-> b + 1] ELSE ScanDigits(s, b, 0)
                m == IF neg THEN 0 - int.n ELSE int.n
                e == int.end
                x == IF At(s, e + 1, "-") \/ At(s, e + 1, "+") THEN e + 2 ELSE e + 1
            IN IF (At(s, e, "e") \/ At(s, e, "E")) /\ IsDigit(s, x)
               THEN LET exp == ScanDigits(s, x, 0)
                    IN Scanned([j |-> "float",
                                v |-> <<m, IF At(s, e + 1, "-") THEN 0 - exp.n ELSE exp.n>>],
                               exp.end)
               ELSE Scanned(Number(m), e)

\* Whether the characters of word stand at i.
Matches(s, i, word) ==
    i + Len(word) - 1 <= Len(s) /\ \A n \in 1..Len(word) : s[i + n - 1] = word[n]

\* scan_once, with the members of an object and the items of an array.
RECURSIVE ScanOnce(_, _)
RECURSIVE ScanMembers(_, _, _)
RECURSIVE ScanItems(_, _, _)
ScanOnce(s, i) ==
    IF i > Len(s) THEN NoScan
    ELSE CASE s[i] = "\"" -> ScanString(s, i + 1, <<>>)
           [] s[i] = "{" ->
                LET n == SkipWhitespace(s, i + 1)
                IN IF At(s, n, "}") THEN Scanned(Object(<<>>), n + 1)
                   ELSE ScanMembers(s, n, <<>>)
           [] s[i] = "[" ->
                LET n == SkipWhitespace(s, i + 1)
                IN IF At(s, n, "]") THEN Scanned(Array(<<>>), n + 1)
                   ELSE ScanItems(s, n, <<>>)
           [] Matches(s, i, <<"n", "u", "l", "l">>) -> Scanned([j |-> "null", v |-> <<>>], i + 4)
           [] Matches(s, i, <<"t", "r", "u", "e">>) -> Scanned([j |-> "true", v |-> <<>>], i + 4)
           [] Matches(s, i, <<"f", "a", "l", "s", "e">>) -> Scanned([j |-> "false", v |-> <<>>], i + 5)
           [] OTHER -> ScanNumber(s, i)
ScanMembers(s, i, acc) ==
    IF ~At(s, i, "\"") THEN NoScan
    ELSE LET name == ScanString(s, i + 1, <<>>)
             colon == SkipWhitespace(s, name.end)
             value == ScanOnce(s, SkipWhitespace(s, colon + 1))
             next == SkipWhitespace(s, value.end)
             members == Append(acc, Member(name.val.v, value.val))
         IN IF ~name.ok \/ ~At(s, colon, ":") \/ ~value.ok THEN NoScan
            ELSE IF At(s, next, "}") THEN Scanned(Object(members), next + 1)
            ELSE IF At(s, next, ",") THEN ScanMembers(s, SkipWhitespace(s, next + 1), members)
            ELSE NoScan
ScanItems(s, i, acc) ==
    LET value == ScanOnce(s, i)
        next == SkipWhitespace(s, value.end)
        items == Append(acc, value.val)
    IN IF ~value.ok THEN NoScan
       ELSE IF At(s, next, "]") THEN Scanned(Array(items), next + 1)
       ELSE IF At(s, next, ",") THEN ScanItems(s, SkipWhitespace(s, next + 1), items)
       ELSE NoScan

\* json.loads(s): one value with white space around it and nothing else;
\* anything else raises JSONDecodeError (ok is FALSE).
JsonLoads(s) ==
    LET value == ScanOnce(s, SkipWhitespace(s, 1))
    IN IF value.ok /\ SkipWhitespace(s, value.end) = Len(s) + 1 THEN value ELSE NoScan

\* The Python value json.load builds for a node: an array becomes a list
\* built by appends, an object a dict in which a repeated name keeps its
\* first place and its last value.
RECURSIVE DictItems(_, _)
DictItems(members, acc) ==
    IF members = <<>> THEN acc
    ELSE LET m == members[1]
             I == {i \in 1..Len(acc) : acc[i].name = m.name}
         IN DictItems(Tail(members),
                      IF I = {} THEN Append(acc, m)
                      ELSE [acc EXCEPT ![CHOOSE i \in I : TRUE].value = m.value])
RECURSIVE FromJson(_)
FromJson(d) ==
    CASE d.j = "number" -> IntV(d.v[1])
      [] d.j = "null" -> NoneV
      [] d.j = "true" -> BoolV(TRUE)
      [] d.j = "false" -> BoolV(FALSE)
      [] d.j = "float" -> [t |-> "float", v |-> d.v]
      [] d.j = "string" -> [t |-> "str", v |-> d.v]
      [] d.j = "array" ->
           IF \A i \in 1..Len(d.v) : d.v[i].j = "number"
           THEN ListV([i \in 1..Len(d.v) |-> d.v[i].v[1]], AppendAlloc(Len(d.v)))
           ELSE ListV([i \in 1..Len(d.v) |-> FromJson(d.v[i])], AppendAlloc(Len(d.v)))
      [] OTHER ->
           [t |-> "dict",
            v |-> LET items == DictItems(d.v, <<>>)
                  IN [i \in 1..Len(items) |->
                        [key |-> items[i].name, value |-> FromJson(items[i].value)]]]
\* What an attribute or a key of the loaded cache holds: an int as the model
\* holds ints everywhere, any other value as FromJson gives it.
Plainly(d) == IF d.j = "number" THEN d.v[1] ELSE FromJson(d)

\* d[name] and name in d for a dict d.
HasMember(d, name) == \E i \in 1..Len(d.v) : d.v[i].name = name
GetMember(d, name) ==
    d.v[CHOOSE i \in 1..Len(d.v) :
          d.v[i].name = name /\ \A n \in (i + 1)..Len(d.v) : d.v[n].name # name].value

\* Python compares numbers by value: True is 1, False is 0, and a float
\* that is whole is the int. The float left over has a negative exponent.
RECURSIVE WholeOrFloat(_, _)
WholeOrFloat(m, e) ==
    IF m = 0 \/ e = 0 THEN Number(m)
    ELSE IF e > 0 THEN WholeOrFloat(10 * m, e - 1)
    ELSE IF m % 10 = 0 THEN WholeOrFloat(m \div 10, e + 1)
    ELSE [j |-> "float", v |-> <<m, e>>]
ByValue(d) ==
    CASE d.j = "true" -> Number(1)
      [] d.j = "false" -> Number(0)
      [] d.j = "float" -> WholeOrFloat(d.v[1], d.v[2])
      [] OTHER -> d
SameKey(a, b) == ByValue(a).j = ByValue(b).j /\ ByValue(a).v = ByValue(b).v
RECURSIVE Pow10(_)
Pow10(n) == IF n = 0 THEN 1 ELSE 10 * Pow10(n - 1)
\* n > x for an int n and a number x.
IntAbove(n, x) ==
    LET y == ByValue(x)
    IN IF y.j = "number" THEN n > y.v[1] ELSE n * Pow10(0 - y.v[2]) > y.v[1]

\* cache._cache[entry["key"]] = entry["value"] on the OrderedDict, the keys
\* still as nodes.
SetNode(c, key, value) ==
    LET I == {i \in 1..Len(c) : SameKey(c[i].key, key)}
    IN IF I = {} THEN Append(c, [key |-> key, value |-> value])
       ELSE [c EXCEPT ![CHOOSE i \in I : TRUE].value = value]
\* The loop of load over what iterating data.get("entries", []) yields: an
\* entry that is no dict raises TypeError, a dict without "value" or "key"
\* KeyError, and a key that is a list or a dict (unhashable) TypeError.
RECURSIVE LoadItems(_, _)
LoadItems(items, c) ==
    IF items = <<>> THEN [c |-> c, exc |-> "none"]
    ELSE LET entry == items[1]
         IN IF entry.j # "object" THEN [c |-> c, exc |-> "TypeError"]
            ELSE IF ~HasMember(entry, <<"v", "a", "l", "u", "e">>) \/ ~HasMember(entry, <<"k", "e", "y">>)
            THEN [c |-> c, exc |-> "KeyError"]
            ELSE IF GetMember(entry, <<"k", "e", "y">>).j \in {"array", "object"}
            THEN [c |-> c, exc |-> "TypeError"]
            ELSE LoadItems(Tail(items),
                           SetNode(c, GetMember(entry, <<"k", "e", "y">>), GetMember(entry, <<"v", "a", "l", "u", "e">>)))
\* for entry in ...: a list yields its items, a dict its keys, a str its
\* characters; nothing else can be iterated.
Iterable(d) == d.j \in {"array", "object", "string"}
Iterate(d) ==
    CASE d.j = "array" -> d.v
      [] d.j = "object" ->
           LET items == DictItems(d.v, <<>>)
           IN [i \in 1..Len(items) |-> [j |-> "string", v |-> items[i].name]]
      [] OTHER -> [i \in 1..Len(d.v) |-> [j |-> "string", v |-> <<d.v[i]>>]]

Raised(exc) == [exc |-> exc, s |-> NewLRUCache(0)]
\* cls.load after json.load has returned data: the statements of load in
\* their order, each with the exception it raises on data of another shape.
LoadData(kind, data) ==
    IF data.j # "object" THEN Raised("TypeError")
    ELSE IF ~HasMember(data, <<"c", "a", "p", "a", "c", "i", "t", "y">>) THEN Raised("KeyError")
    ELSE LET capacity == GetMember(data, <<"c", "a", "p", "a", "c", "i", "t", "y">>)
             entries == IF HasMember(data, <<"e", "n", "t", "r", "i", "e", "s">>)
                        THEN GetMember(data, <<"e", "n", "t", "r", "i", "e", "s">>) ELSE Array(<<>>)
             metrics == IF HasMember(data, <<"m", "e", "t", "r", "i", "c", "s">>)
                        THEN GetMember(data, <<"m", "e", "t", "r", "i", "c", "s">>) ELSE Object(<<>>)
             get(name) == IF HasMember(metrics, name)
                          THEN Plainly(GetMember(metrics, name)) ELSE 0
             cache == NewInstance(kind, Plainly(capacity))
             e == LoadItems(Iterate(entries), <<>>)
         IN IF ByValue(capacity).j \notin {"number", "float"} THEN Raised("TypeError")
            ELSE IF ByValue(capacity).v[1] <= 0 THEN Raised("ValueError")
            ELSE IF ~Iterable(entries) THEN Raised("TypeError")
            ELSE IF e.exc # "none" THEN Raised(e.exc)
            ELSE IF metrics.j # "object" THEN Raised("AttributeError")
            ELSE IF IF kind = "sized" THEN Len(e.c) > cache.capacity
                    ELSE IntAbove(Len(e.c), capacity)
            THEN Raised("ValueError")
            ELSE [exc |-> "none",
                  s |-> [cache EXCEPT
                           !.cache = [i \in 1..Len(e.c) |->
                                        [key |-> Plainly(e.c[i].key),
                                         value |-> FromJson(e.c[i].value)]],
                           !.hits = get(<<"h", "i", "t", "s">>),
                           !.misses = get(<<"m", "i", "s", "s", "e", "s">>),
                           !.evictions = get(<<"e", "v", "i", "c", "t", "i", "o", "n", "s">>)]]
\* cls.load of a file with the given text.
LoadText(kind, text) ==
    IF JsonLoads(text).ok THEN LoadData(kind, JsonLoads(text).val)
    ELSE Raised("JSONDecodeError")

\* --------------------------------------------------------------- DiskCache
\* pickle.dump and pickle.load: the blob names the type it was written from
\* and carries the payload, and the value is rebuilt with that type.
PickleDump(v) == [pickled |-> v.t, payload |-> v.v]
PickleLoad(b) ==
    IF b.pickled = "list"
    THEN ListV(b.payload, ExtendAlloc(Len(b.payload)))
    ELSE [t |-> b.pickled, v |-> b.payload]

\* The cache directory: for each key the file its hashed name denotes. The
\* sha256 file names are taken to be distinct for distinct keys.
NoEntry == [present |-> FALSE, blob |-> PickleDump(NoneV)]
EmptyDisk == [k \in Keys |-> NoEntry]


\* What the filesystem does under a call is its io: "ok" when every
\* operation works; "fail" when the entry files cannot be opened, read,
\* written or unlinked (an OSError inside the try blocks); "denied" when the
\* cache directory is not searchable, so that already the stat of
\* filepath.exists() and the listing of iterdir() raise PermissionError.

\* DiskCache.get: filepath.exists() is outside the try block and its error is
\* raised; None when the file is missing or cannot be read.
DiskGet(d, k, io) ==
    IF io = "denied" THEN [val |-> NoneV, exc |-> "PermissionError"]
    ELSE IF ~d[k].present THEN [val |-> NoneV, exc |-> "none"]
    ELSE IF io = "fail" THEN [val |-> NoneV, exc |-> "none"]
    ELSE [val |-> PickleLoad(d[k].blob), exc |-> "none"]

\* DiskCache.put: the temp file is written and renamed over the entry, or the
\* write fails, the temp file is removed and the error is raised again (in a
\* directory that is not searchable, temp_filepath.exists() of the except
\* block raises in its place).
DiskPut(d, k, v, io) ==
    IF io = "denied" THEN [d |-> d, exc |-> "PermissionError"]
    ELSE IF io = "fail"
    THEN [d |-> d, exc |-> "OSError"]
    ELSE [d |-> [d EXCEPT ![k] = [present |-> TRUE, blob |-> PickleDump(v)]],
          exc |-> "none"]

\* DiskCache.remove: whether the file existed and was unlinked; the error of
\* filepath.exists(), outside the try block, is raised.
DiskRemove(d, k, io) ==
    IF io = "denied" THEN [d |-> d, removed |-> FALSE, exc |-> "PermissionError"]
    ELSE IF ~d[k].present THEN [d |-> d, removed |-> FALSE, exc |-> "none"]
    ELSE IF io = "fail" THEN [d |-> d, removed |-> FALSE, exc |-> "none"]
    ELSE [d |-> [d EXCEPT ![k] = NoEntry], removed |-> TRUE, exc |-> "none"]

\* DiskCache.clear: iterdir() is outside any try block and its error is
\* raised; every file that can be unlinked is, and the others (all of them
\* when io is "fail", else those of the keys in stuck) stay.
DiskClear(d, io, stuck) ==
    IF io = "denied" THEN [d |-> d, exc |-> "PermissionError"]
    ELSE [d |-> [k \in Keys |-> IF io = "fail" \/ k \in stuck THEN d[k] ELSE NoEntry],
          exc |-> "none"]

\* DiskCache.exists: filepath.exists(), whose error is raised.
DiskExists(d, k, io) ==
    IF io = "denied" THEN [val |-> FALSE, exc |-> "PermissionError"]
    ELSE [val |-> d[k].present, exc |-> "none"]

\* ------------------------------------------------------------- MobileCache
\* The outcome of a tiered call: both tiers after it, the value returned, the
\* exception raised, whether memory had the key and whether disk was queried.
\* MobileCache.get
MobileGet(s, d, k, io) ==
    LET m == MemGet(s, k)
    IN IF m.val # NoneV
       THEN [s |-> m.s, d |-> d, val |-> m.val, exc |-> "none", hit |-> m.hit, dq |-> FALSE]
       ELSE LET r == DiskGet(d, k, io)
                value == r.val
            IN IF r.exc # "none"
               THEN [s |-> m.s, d |-> d, val |-> NoneV, exc |-> r.exc,
                     hit |-> m.hit, dq |-> TRUE]
               ELSE IF value # NoneV
               THEN LET p == MemPut(m.s, k, value)
                    IN IF p.exc # "none"
                       THEN [s |-> p.s, d |-> d, val |-> NoneV, exc |-> p.exc,
                             hit |-> m.hit, dq |-> TRUE]
                       ELSE [s |-> p.s, d |-> d, val |-> value, exc |-> "none",
                             hit |-> m.hit, dq |-> TRUE]
               ELSE [s |-> m.s, d |-> d, val |-> NoneV, exc |-> "none",
                     hit |-> m.hit, dq |-> TRUE]

\* MobileCache.put: an error of the memory put is raised before the disk is
\* touched; an error of the disk put is swallowed.
MobilePut(s, d, k, v, io) ==
    LET p == MemPut(s, k, v)
    IN IF p.exc # "none"
       THEN [s |-> p.s, d |-> d, val |-> NoneV, exc |-> p.exc, hit |-> FALSE, dq |-> FALSE]
       ELSE [s |-> p.s, d |-> DiskPut(d, k, v, io).d, val |-> NoneV, exc |-> "none",
             hit |-> FALSE, dq |-> FALSE]

\* A remove that also drops the key from the memory tier.
MobileRemoveBothTiers(s, d, k, io) ==
    [s |-> IF Contains(s.cache, k)
           THEN [s EXCEPT !.cache = RemoveAt(s.cache, IndexOf(s.cache, k))]
           ELSE s,
     d |-> DiskRemove(d, k, io).d, removed |-> DiskRemove(d, k, io).removed,
     exc |-> DiskRemove(d, k, io).exc]

\* MobileCache.remove: the disk tier only; what DiskCache.remove raises is
\* raised.
MobileRemove(s, d, k, io) ==
    [s |-> s, d |-> DiskRemove(d, k, io).d, removed |-> DiskRemove(d, k, io).removed,
     exc |-> DiskRemove(d, k, io).exc]

\* MobileCache.clear: the disk tier only; what DiskCache.clear raises is
\* raised.
MobileClear(s, d, io, stuck) ==
    [s |-> s, d |-> DiskClear(d, io, stuck).d, exc |-> DiskClear(d, io, stuck).exc]

\* ------------------------------------------------------------------- state
VARIABLES
    mem,      \* the memory-tier instance (an LRUCache or a SizedLRUCache)
    last,     \* the last completed call: its operation, arguments and outcome
    stats,    \* the dict the last get_stats returned
    loaded,   \* what the last load returned or raised
    file,     \* the document at the save path
    saved,    \* the instance as it was when the last save ran
    touched,  \* the keys ever put, ordered by their last touch (oldest first)
    fresh,    \* the number of puts of a key that was not resident
    sizing,   \* what size_of answered: for each resident key when its value was
              \* stored, and how far off that its answer for the old value of
              \* the last put was
    fs,       \* the cache directory file by file: paths, open files, contents
    steps,    \* the number of calls made
    disk,     \* the disk tier: for each key, its published file
    lock,     \* the instance lock: 0 when free, else the thread holding it
    pc,       \* where each thread is in its call
    call,     \* each thread's call in progress: arguments and result so far
    snap,     \* the instance as each thread in a call found it when it took the lock
    before    \* the instance as the last completed call found it

threadVars == <<lock, pc, call, snap, before>>
vars == <<mem, last, stats, loaded, file, saved, touched, fresh, sizing, fs, steps, disk,
          lock, pc, call, snap, before>>

\* The record of a completed call. dq tells whether the call queried the disk
\* tier, io whether the filesystem failed under it, t the calling thread.
Call(op, k, v, r) ==
    [op |-> op, key |-> k, arg |-> v, val |-> r.val, hit |-> r.hit, exc |-> r.exc,
     dq |-> FALSE, io |-> "ok", t |-> 0, bufsize |-> 0, buf |-> <<>>]
NoCall == Call("none", 0, NoneV, [val |-> NoneV, hit |-> FALSE, exc |-> "none"])
Plain == [val |-> NoneV, hit |-> FALSE, exc |-> "none"]

NoSnap == NewLRUCache(0)
NoSizing == [stored |-> [k \in Keys |-> 0], drift |-> 0]
NThreads == 2
MaxCalls == 3
Threads == 1..NThreads
\* The keys and values the threads use.
NThreadKeys == 2
ThreadKeys == 1..NThreadKeys
ThreadValues == {IntV(1), TupleV(<<1, 2>>)}

\* ------------------------------------------- the cache directory, by file
\* pickle.dump as the opcodes it writes: PROTO, a FRAME around anything longer
\* than a few bytes, BININT1 per int, TUPLE for a tuple, and STOP.
Op(name, n) == [op |-> name, n |-> n]
PickleBytes(v) ==
    LET ints == [i \in 1..Len(v.v) |-> Op("BININT1", v.v[i])]
    IN CASE v.t = "int" -> <<Op("PROTO", 4)>> \o ints \o <<Op("STOP", 0)>>
         [] v.t = "None" -> <<Op("PROTO", 4), Op("NONE", 0), Op("STOP", 0)>>
         [] OTHER -> <<Op("PROTO", 4), Op("FRAME", Len(v.v) + 2)>> \o ints
                        \o <<Op(IF v.t = "tuple" THEN "TUPLE" ELSE "LIST", Len(v.v)),
                             Op("STOP", 0)>>

\* The unpickler on the opcodes that follow PROTO: the value on the stack at
\* STOP; EOFError when the input ends where an opcode is due.
RECURSIVE Unpickle(_, _)
Unpickle(bytes, stack) ==
    IF bytes = <<>> THEN [val |-> NoneV, exc |-> "EOFError"]
    ELSE LET b == bytes[1]
         IN CASE b.op = "STOP" ->
                   IF stack = <<>> THEN [val |-> NoneV, exc |-> "UnpicklingError"]
                   ELSE [val |-> stack[Len(stack)], exc |-> "none"]
              [] b.op = "FRAME" ->
                   IF Len(bytes) - 1 < b.n
                   THEN [val |-> NoneV, exc |-> "UnpicklingError"]
                   ELSE Unpickle(Tail(bytes), stack)
              [] b.op = "BININT1" -> Unpickle(Tail(bytes), Append(stack, IntV(b.n)))
              [] b.op = "NONE" -> Unpickle(Tail(bytes), Append(stack, NoneV))
              [] b.op \in {"TUPLE", "LIST"} ->
                   IF Len(stack) < b.n
                   THEN [val |-> NoneV, exc |-> "UnpicklingError"]
                   ELSE LET items == [i \in 1..b.n |-> stack[Len(stack) - b.n + i].v[1]]
                        IN Unpickle(Tail(bytes),
                                    Append(SubSeq(stack, 1, Len(stack) - b.n),
                                           IF b.op = "TUPLE" THEN TupleV(items)
                                           ELSE ListV(items, ExtendAlloc(b.n))))
              [] OTHER -> Unpickle(Tail(bytes), stack)

\* pickle.load of a file's contents.
PickleLoadBytes(bytes) ==
    IF bytes = <<>> THEN [val |-> NoneV, exc |-> "EOFError"]
    ELSE Unpickle(bytes, <<>>)


\* The files behind the paths. For each key, pub is the file at the entry's
\* path and tmp the file at its .tmp sibling (0 when the path does not
\* exist); fd is the file each thread has open; data is each file's contents.
Inodes == 1..(2 * NThreadKeys + NThreads)
NoFiles ==
    [pub |-> [k \in ThreadKeys |-> 0],
     tmp |-> [k \in ThreadKeys |-> 0],
     fd |-> [t \in Threads |-> 0],
     data |-> [i \in Inodes |-> <<>>]]
Referenced(f) ==
    ({f.pub[k] : k \in ThreadKeys} \cup {f.tmp[k] : k \in ThreadKeys}
        \cup {f.fd[t] : t \in Threads}) \ {0}
\* A file that no path and no open file refers to is gone.
Collect(f) ==
    [f EXCEPT !.data = [i \in Inodes |-> IF i \in Referenced(f) THEN f.data[i] ELSE <<>>]]
FreshInode(f) ==
    CHOOSE i \in Inodes \ Referenced(f) : \A j \in Inodes \ Referenced(f) : i <= j

\* A touch: the key becomes the most recently touched one.
Touch(seq, k) == Append(SelectSeq(seq, LAMBDA x : x # k), k)

InitCommon ==
    /\ last = NoCall
    /\ stats = NoStats
    /\ loaded = NotLoaded
    /\ touched = <<>>
    /\ fresh = 0
    /\ sizing = NoSizing
    /\ steps = 0
    /\ lock = 0
    /\ pc = [t \in Threads |-> "idle"]
    /\ call = [t \in Threads |-> NoCall]
    /\ snap = [t \in Threads |-> NoSnap]
    /\ before = NoSnap

\* LRUCache(capacity) with a positive capacity.
Init ==
    /\ mem \in {NewLRUCache(c) : c \in 1..MaxCap}
    /\ saved = mem
    /\ disk = EmptyDisk
    /\ file = NoFile
    /\ fs = NoFiles
    /\ InitCommon

\* get(key)
Get(k) ==
    /\ steps < MaxOps
    /\ LET r == MemGet(mem, k)
       IN /\ mem' = r.s
          /\ last' = Call("get", k, NoneV, r)
          /\ touched' = IF r.hit THEN Touch(touched, k) ELSE touched
    /\ UNCHANGED <<fresh, sizing, fs>>
    /\ stats' = NoStats
    /\ loaded' = NotLoaded
    /\ steps' = steps + 1
    /\ UNCHANGED threadVars
    /\ UNCHANGED <<file, saved, disk>>

\* put(key, value)
Put(k, v) ==
    /\ steps < MaxOps
    /\ LET r == MemPut(mem, k, v)
       IN /\ mem' = r.s
          /\ last' = Call("put", k, v, r)
    /\ touched' = Touch(touched, k)
    /\ fresh' = IF Contains(mem.cache, k) THEN fresh ELSE fresh + 1
    /\ UNCHANGED <<sizing, fs>>
    /\ stats' = NoStats
    /\ loaded' = NotLoaded
    /\ steps' = steps + 1
    /\ UNCHANGED threadVars
    /\ UNCHANGED <<file, saved, disk>>

\* get_stats()
GetStats ==
    /\ steps < MaxOps
    /\ stats' = MemGetStats(mem)
    /\ last' = Call("get_stats", 0, NoneV, Plain)
    /\ loaded' = NotLoaded
    /\ steps' = steps + 1
    /\ UNCHANGED threadVars
    /\ UNCHANGED <<mem, file, saved, touched, fresh, sizing, fs, disk>>

\* save(filepath)
Save ==
    /\ steps < MaxOps
    /\ file' = SaveDocument(mem)
    /\ saved' = mem
    /\ last' = Call("save", 0, NoneV, Plain)
    /\ stats' = NoStats
    /\ loaded' = NotLoaded
    /\ steps' = steps + 1
    /\ UNCHANGED threadVars
    /\ UNCHANGED <<mem, touched, fresh, sizing, fs, disk>>

\* cls.load(filepath), one reader and no writer at work.
LoadAs(kind) ==
    /\ steps < MaxOps
    /\ loaded' = LoadDocumentAs(kind, file)
    /\ last' = Call("load", 0, NoneV, [Plain EXCEPT !.exc = LoadDocumentAs(kind, file).exc])
    /\ stats' = NoStats
    /\ steps' = steps + 1
    /\ UNCHANGED threadVars
    /\ UNCHANGED <<mem, file, saved, touched, fresh, sizing, fs, disk>>
\* LRUCache.load(filepath)
Load == LoadAs("lru")

Next ==
    \/ \E k \in Keys : Get(k)
    \/ \E k \in Keys, v \in Values : Put(k, v)
    \/ GetStats
    \/ Save
    \/ Load

Spec == Init /\ [][Next]_vars

\* The byte budgets tried: 160 holds one int entry (156 bytes) and rejects a
\* tuple entry (184 bytes); 350 holds any two entries.
Budgets == {160, 350}

\* SizedLRUCache(max_size_bytes) with a positive budget.
InitSized ==
    /\ mem \in {NewSizedLRUCache(b) : b \in Budgets}
    /\ saved = mem
    /\ disk = EmptyDisk
    /\ file = NoFile
    /\ fs = NoFiles
    /\ InitCommon

SpecSized == InitSized /\ [][Next]_vars

\* ------------------------------------------------------------------ claims
KeySeq(c) == [i \in 1..Len(c) |-> c[i].key]
Min(a, b) == IF a < b THEN a ELSE b
\* The keys of c other than k that are in the set S, in the order of c.
Others(c, k, S) == SelectSeq(KeySeq(c), LAMBDA x : x # k /\ x \in S)

\* C2: the resident keys of an LRUCache are exactly the min(C, n) most recently
\* touched of the n distinct keys ever put (a touch is a put or a get that hits).
C2_MostRecentlyTouched ==
    LET n == Len(touched)
        m == Min(mem.capacity, n)
    IN KeysOf(mem.cache) = {touched[i] : i \in (n - m + 1)..n}
\* The scenario of the specification: capacity 2, put 1, put 2, get 1, put 3
\* has evicted key 2, not key 1.
C2_Witness ==
    /\ mem.capacity = 2
    /\ mem.evictions = 1
    /\ mem.hits = 1
    /\ touched = <<2, 1, 3>>
    /\ KeySeq(mem.cache) = <<1, 3>>

\* C3: no get, put or get_stats on a memory-tier cache fails with an error.
C3_NeverFails ==
    last.op \in {"get", "put", "get_stats"} => last.exc = "none"

\* C4: after every put on a SizedLRUCache, however it ended, the sizes of the
\* resident entries sum to at most the budget.
C4_ResidentWithinBudget ==
    ResidentBytes(mem.cache) <= mem.max_size_bytes

\* C5: a put whose item is larger than the budget returns normally and leaves
\* the whole SizedLRUCache (entries, values, order, running total, counters)
\* as it was.
C5_OversizedPutIsNoOp ==
    [][(last'.op = "put" /\ SizeOf(last'.key, last'.arg) > mem.max_size_bytes)
         => (last'.exc = "none" /\ mem' = mem)]_vars
\* An oversized put of a key that is resident with another value.
C5_Witness ==
    /\ last.op = "put"
    /\ SizeOf(last.key, last.arg) > mem.max_size_bytes
    /\ Contains(mem.cache, last.key)
    /\ Lookup(mem.cache, last.key) # last.arg

\* C6: a load of what save wrote returns a cache equal to the one saved:
\* same capacity, entries, values, order and counters.
C6_SaveLoadRoundTrip ==
    (last.op = "load" /\ file.exists) => (loaded.exc = "none" /\ loaded.s = saved)

\* C9: a get that hits k and a put of k leave k last in the recency order and
\* keep the relative order of the other keys that stay resident.
C9_TouchedKeyIsLast ==
    [][((last'.op = "get" /\ Contains(mem.cache, last'.key)) \/ last'.op = "put")
         => LET k == last'.key
                c == mem'.cache
            IN /\ Len(c) > 0
               /\ c[Len(c)].key = k
               /\ \A i \in 1..(Len(c) - 1) : c[i].key # k
               /\ Others(c, k, KeysOf(c)) = Others(mem.cache, k, KeysOf(c))]_vars
\* A put of a resident key that was not the most recent one, seen through the
\* eviction that follows: capacity 2, put 1, put 2, put 1, put 3 keeps key 1.
C9_Witness ==
    /\ mem.capacity = 2
    /\ last.op = "put"
    /\ last.key = 3
    /\ mem.hits = 0
    /\ mem.misses = 0
    /\ touched = <<2, 1, 3>>
    /\ KeySeq(mem.cache) = <<1, 3>>

\* C10: a get of a key that is not resident returns None, adds one to the miss
\* counter and changes nothing else of the LRUCache.
C10_MissChangesOnlyMisses ==
    [][(last'.op = "get" /\ ~Contains(mem.cache, last'.key))
         => /\ last'.val = NoneV
            /\ last'.exc = "none"
            /\ mem' = [mem EXCEPT !.misses = @ + 1]]_vars
\* A miss on a cache that holds other entries.
C10_Witness ==
    /\ last.op = "get"
    /\ ~last.hit
    /\ mem.misses >= 1
    /\ Len(mem.cache) = mem.capacity
    /\ ~Contains(mem.cache, last.key)

\* --------------------------------------------------- the two-tier cache
MaxMobileOps == 3
\* The keys and values the callers of the tiered cache use.
NMobileKeys == 2
MobileKeys == 1..NMobileKeys
MobileValues == {IntV(1), TupleV(<<1, 2>>)}
\* What the filesystem does under a call: it works, the entry files fail, or
\* the cache directory is not searchable.
IO == {"ok", "fail", "denied"}

\* MobileCache(memory_cache, disk_cache): the memory tier is a fresh LRUCache
\* or SizedLRUCache; the cache directory may hold files of an earlier run.
InitMobile ==
    /\ mem \in {NewLRUCache(c) : c \in 1..MaxCap} \cup {NewSizedLRUCache(b) : b \in Budgets}
    /\ saved = mem
    /\ disk \in {d \in [Keys -> {NoEntry, [present |-> TRUE, blob |-> PickleDump(IntV(1))]}] :
                  \A k \in Keys \ MobileKeys : d[k] = NoEntry}
    /\ file = NoFile
    /\ fs = NoFiles
    /\ InitCommon

\* MobileCache.get(key)
MGet(k, io) ==
    /\ steps < MaxMobileOps
    /\ LET r == MobileGet(mem, disk, k, io)
       IN /\ mem' = r.s
          /\ disk' = r.d
          /\ last' = [Call("mget", k, NoneV, r) EXCEPT !.dq = r.dq, !.io = io]
    /\ steps' = steps + 1
    /\ UNCHANGED threadVars
    /\ UNCHANGED <<stats, loaded, file, saved, touched, fresh, sizing, fs>>

\* MobileCache.put(key, value)
MPut(k, v, io) ==
    /\ steps < MaxMobileOps
    /\ LET r == MobilePut(mem, disk, k, v, io)
       IN /\ mem' = r.s
          /\ disk' = r.d
          /\ last' = [Call("mput", k, v, r) EXCEPT !.io = io]
    /\ steps' = steps + 1
    /\ UNCHANGED threadVars
    /\ UNCHANGED <<stats, loaded, file, saved, touched, fresh, sizing, fs>>

\* MobileCache.remove(key)
MRemove(k, io) ==
    /\ steps < MaxMobileOps
    /\ LET r == MobileRemove(mem, disk, k, io)
       IN /\ mem' = r.s
          /\ disk' = r.d
          /\ last' = [Call("mremove", k, NoneV,
                           [val |-> IF r.exc = "none" THEN BoolV(r.removed) ELSE NoneV,
                            hit |-> FALSE, exc |-> r.exc])
                      EXCEPT !.io = io]
    /\ steps' = steps + 1
    /\ UNCHANGED threadVars
    /\ UNCHANGED <<stats, loaded, file, saved, touched, fresh, sizing, fs>>

\* MobileCache.clear()
MClear(io, stuck) ==
    /\ steps < MaxMobileOps
    /\ LET r == MobileClear(mem, disk, io, stuck)
       IN /\ mem' = r.s
          /\ disk' = r.d
          /\ last' = [Call("mclear", 0, NoneV, [Plain EXCEPT !.exc = r.exc])
                      EXCEPT !.io = io]
    /\ steps' = steps + 1
    /\ UNCHANGED threadVars
    /\ UNCHANGED <<stats, loaded, file, saved, touched, fresh, sizing, fs>>

NextMobile ==
    \/ \E k \in MobileKeys, io \in IO : MGet(k, io)
    \/ \E k \in MobileKeys, v \in MobileValues, io \in IO : MPut(k, v, io)
    \/ \E k \in MobileKeys, io \in IO : MRemove(k, io)
    \/ \E stuck \in SUBSET MobileKeys : MClear("ok", stuck)
    \/ \E io \in IO \ {"ok"} : MClear(io, {})

SpecMobile == InitMobile /\ [][NextMobile]_vars

\* C7: when K is absent from memory and on disk with value v, MobileCache.get
\* returns v and puts (K, v) into memory, so that the next get(K) is a memory
\* hit that returns v without querying the disk; and a get that hits memory
\* never queries the disk.
C7_DiskHitIsPromoted ==
    /\ (last.op = "mget" /\ ~last.hit /\ last.io = "ok" /\ disk[last.key].present)
         => /\ last.exc = "none"
            /\ last.val = PickleLoad(disk[last.key].blob)
            /\ LET again == MobileGet(mem, disk, last.key, "ok")
               IN again.hit /\ ~again.dq /\ again.val = last.val /\ again.exc = "none"
    /\ (last.op = "mget" /\ last.hit) => ~last.dq

\* ------------------------------------------- threads on one memory-tier cache
\* Each thread calls get or put; a call takes the instance lock, runs the
\* statements of the method one at a time and releases the lock as the with
\* block is left, by return or by exception.
InitThreads ==
    /\ mem \in {NewLRUCache(c) : c \in 1..MaxCap} \cup {NewSizedLRUCache(b) : b \in Budgets}
    /\ saved = mem
    /\ disk = EmptyDisk
    /\ file = NoFile
    /\ fs = NoFiles
    /\ InitCommon

seqVars == <<stats, loaded, file, saved, touched, fresh, sizing, fs, disk, before>>
\* The steps a thread takes inside a with self._lock block.
InCS(t) ==
    pc[t] \in {"get_check", "get_move", "get_read", "put_check", "put_set",
               "put_evict", "evict_count", "sput_check", "sput_body",
               "stats_base", "stats_size", "save_snap", "release"}
Goto(t, label) == pc' = [pc EXCEPT ![t] = label]

\* A thread starts cache.get(k).
TCallGet(t, k) ==
    /\ pc[t] = "idle"
    /\ steps < MaxCalls
    /\ call' = [call EXCEPT ![t] = [Call("get", k, NoneV, Plain) EXCEPT !.t = t]]
    /\ Goto(t, "acquire")
    /\ steps' = steps + 1
    /\ UNCHANGED <<mem, last, lock, snap, seqVars>>

\* A thread starts cache.put(k, v).
TCallPut(t, k, v) ==
    /\ pc[t] = "idle"
    /\ steps < MaxCalls
    /\ call' = [call EXCEPT ![t] = [Call("put", k, v, Plain) EXCEPT !.t = t]]
    /\ Goto(t, "acquire")
    /\ steps' = steps + 1
    /\ UNCHANGED <<mem, last, lock, snap, seqVars>>

\* A variant of the lock that lets every thread in.
CanAcquireAlways(t) == TRUE
\* threading.Lock: acquire blocks while another thread holds the lock.
CanAcquire(t) == lock = 0

\* with self._lock: the thread enters the method body.
TAcquire(t) ==
    /\ pc[t] = "acquire"
    /\ CanAcquire(t)
    /\ lock' = t
    /\ snap' = [snap EXCEPT ![t] = mem]
    /\ Goto(t, CASE call[t].op = "get" -> "get_check"
                 [] call[t].op = "get_stats" -> "stats_base"
                 [] call[t].op = "save" -> "save_snap"
                 [] OTHER -> IF mem.kind = "sized" THEN "sput_check" ELSE "put_check")
    /\ UNCHANGED <<mem, last, call, steps, seqVars>>

\* get: if key not in self._cache: self._misses += 1; return None
\*      self._hits += 1
TGetCheck(t) ==
    /\ pc[t] = "get_check"
    /\ IF ~Contains(mem.cache, call[t].key)
       THEN /\ mem' = [mem EXCEPT !.misses = @ + 1]
            /\ Goto(t, "release")
       ELSE /\ mem' = [mem EXCEPT !.hits = @ + 1]
            /\ Goto(t, "get_move")
    /\ UNCHANGED <<last, lock, call, snap, steps, seqVars>>

\* get: self._cache.move_to_end(key); a key that is gone raises KeyError.
TGetMove(t) ==
    /\ pc[t] = "get_move"
    /\ IF Contains(mem.cache, call[t].key)
       THEN /\ mem' = [mem EXCEPT !.cache = MoveToEnd(@, call[t].key)]
            /\ Goto(t, "get_read")
            /\ UNCHANGED call
       ELSE /\ call' = [call EXCEPT ![t].exc = "KeyError"]
            /\ Goto(t, "release")
            /\ UNCHANGED mem
    /\ UNCHANGED <<last, lock, snap, steps, seqVars>>

\* get: return self._cache[key]
TGetRead(t) ==
    /\ pc[t] = "get_read"
    /\ IF Contains(mem.cache, call[t].key)
       THEN call' = [call EXCEPT ![t].val = Lookup(mem.cache, call[t].key),
                                 ![t].hit = TRUE]
       ELSE call' = [call EXCEPT ![t].exc = "KeyError"]
    /\ Goto(t, "release")
    /\ UNCHANGED <<mem, last, lock, snap, steps, seqVars>>

\* put: if key in self._cache: self._cache.move_to_end(key)
TPutCheck(t) ==
    /\ pc[t] = "put_check"
    /\ mem' = IF Contains(mem.cache, call[t].key)
              THEN [mem EXCEPT !.cache = MoveToEnd(@, call[t].key)]
              ELSE mem
    /\ Goto(t, "put_set")
    /\ UNCHANGED <<last, lock, call, snap, steps, seqVars>>

\* put: self._cache[key] = value
TPutSet(t) ==
    /\ pc[t] = "put_set"
    /\ mem' = [mem EXCEPT !.cache = SetItem(@, call[t].key, call[t].arg)]
    /\ Goto(t, "put_evict")
    /\ UNCHANGED <<last, lock, call, snap, steps, seqVars>>

\* _evict_if_needed: the loop test, and self._cache.popitem(last=False).
TPutEvict(t) ==
    /\ pc[t] = "put_evict"
    /\ IF NeedsEviction(mem) /\ Len(mem.cache) > 0
       THEN /\ mem' = [mem EXCEPT !.cache = PopItemFirst(@)]
            /\ Goto(t, "evict_count")
       ELSE /\ Goto(t, "release")
            /\ UNCHANGED mem
    /\ UNCHANGED <<last, lock, call, snap, steps, seqVars>>

\* _evict_least_recently_used: self._evictions += 1
TEvictCount(t) ==
    /\ pc[t] = "evict_count"
    /\ mem' = [mem EXCEPT !.evictions = @ + 1]
    /\ Goto(t, "put_evict")
    /\ UNCHANGED <<last, lock, call, snap, steps, seqVars>>

\* SizedLRUCache.put: item_size = self.size_of(key, value) and the rejection.
TSizedCheck(t) ==
    /\ pc[t] = "sput_check"
    /\ Goto(t, IF SizeOf(call[t].key, call[t].arg) > mem.max_size_bytes
               THEN "release" ELSE "sput_body")
    /\ UNCHANGED <<mem, last, lock, call, snap, steps, seqVars>>

\* SizedLRUCache.put: the branch for a resident or a new key, up to its
\* return or the exception that ends it.
TSizedBody(t) ==
    /\ pc[t] = "sput_body"
    /\ LET item_size == SizeOf(call[t].key, call[t].arg)
           r == IF Contains(mem.cache, call[t].key)
                THEN SizedPutExisting(mem, call[t].key, call[t].arg, item_size, NoGrowth)
                ELSE SizedPutNew(mem, call[t].key, call[t].arg, item_size, NoGrowth)
       IN /\ mem' = r.s
          /\ call' = [call EXCEPT ![t].exc = r.exc]
    /\ Goto(t, "release")
    /\ UNCHANGED <<last, lock, snap, steps, seqVars>>

\* The with block is left: the lock is released and the call completes.
TRelease(t) ==
    /\ pc[t] = "release"
    /\ lock' = 0
    /\ last' = call[t]
    /\ before' = snap[t]
    /\ call' = [call EXCEPT ![t] = NoCall]
    /\ snap' = [snap EXCEPT ![t] = NoSnap]
    /\ Goto(t, "idle")
    /\ UNCHANGED <<mem, steps, stats, loaded, file, saved, touched, fresh, sizing, fs, disk>>

NextThreads ==
    \E t \in Threads :
        \/ \E k \in ThreadKeys : TCallGet(t, k)
        \/ \E k \in ThreadKeys, v \in ThreadValues : TCallPut(t, k, v)
        \/ TAcquire(t)
        \/ TGetCheck(t)
        \/ TGetMove(t)
        \/ TGetRead(t)
        \/ TPutCheck(t)
        \/ TPutSet(t)
        \/ TPutEvict(t)
        \/ TEvictCount(t)
        \/ TSizedCheck(t)
        \/ TSizedBody(t)
        \/ TRelease(t)

SpecThreads == InitThreads /\ [][NextThreads]_vars

\* The call as one indivisible step on the instance s.
Atomic(s, c) == IF c.op = "get" THEN MemGet(s, c.key) ELSE MemPut(s, c.key, c.arg)

\* C1: whenever no get or put is in progress on an LRUCache of capacity C,
\* whatever threads made the calls completed so far, at most C entries are
\* resident.
C1_CountWithinCapacity ==
    (mem.kind = "lru" /\ lock = 0) => Len(mem.cache) <= mem.capacity
\* A put by one thread that evicted, completed after a call of another thread.
C1_Witness ==
    /\ mem.kind = "lru"
    /\ lock = 0
    /\ last.op = "put"
    /\ mem.evictions >= 1
    /\ Len(mem.cache) = mem.capacity
    /\ \E t \in Threads : t # last.t /\ pc[t] = "acquire"

\* C8: concurrent get and put calls exclude each other, no call finds the
\* cache between an insertion and its eviction (a resident count above the
\* capacity), and each completed call returns what the indivisible call would
\* return, and leaves what it would leave, on the instance as it was when the
\* call took the lock.
C8_CallsAreSerialized ==
    /\ \A t1, t2 \in Threads : (t1 # t2) => ~(InCS(t1) /\ InCS(t2))
    /\ \A t \in Threads : InCS(t) => Len(snap[t].cache) <= snap[t].capacity
    /\ (lock = 0 /\ last.op # "none")
         => LET r == Atomic(before, last)
            IN /\ mem = r.s
               /\ last.val = r.val
               /\ last.hit = r.hit
               /\ last.exc = r.exc
\* A thread is waiting for the lock while another is between the insertion
\* and the eviction of a put on a full cache.
C8_Witness ==
    \E t1, t2 \in Threads :
        /\ pc[t1] = "put_evict"
        /\ Len(mem.cache) > mem.capacity
        /\ pc[t2] = "acquire"

\* ------------------------------------------------- load of any document
\* LRUCache.load reads whatever is at the path: the documents below are the
\* inputs, well formed as JSON but not necessarily written by save.
MaxDocLen == 3
DocValues == {IntV(1), IntV(2)}
DocEntries ==
    {[key |-> JsonEncode(IntV(k)), value |-> JsonEncode(v)] :
        k \in ThreadKeys, v \in DocValues}
DocCounts == {-1, 0, 1}
Documents ==
    {Document(c, e, [hits |-> h, misses |-> m, evictions |-> x]) :
        c \in 0..MaxCap,
        e \in UNION {[1..n -> DocEntries] : n \in 0..MaxDocLen},
        h \in DocCounts, m \in DocCounts, x \in DocCounts}

InitLoad ==
    /\ mem = NewLRUCache(1)
    /\ saved = mem
    /\ disk = EmptyDisk
    /\ file \in Documents
    /\ fs = NoFiles
    /\ InitCommon

\* LRUCache.load(filepath) or SizedLRUCache.load(filepath)
NextLoad == \E kind \in {"lru", "sized"} : LoadAs(kind)
SpecLoad == InitLoad /\ [][NextLoad]_vars

\* C11: load of a document whose entries list has more elements than its
\* declared capacity fails and returns no instance, a repeated key included.
C11_TooManyEntriesRejected ==
    (last.op = "load" /\ Len(file.entries) > file.capacity)
        => loaded.exc # "none"

\* C12: load of a document with a negative hits, misses or evictions count
\* fails, so that every loaded cache has non-negative counters.
C12_NegativeMetricsRejected ==
    /\ (last.op = "load"
        /\ (file.metrics.hits < 0 \/ file.metrics.misses < 0
            \/ file.metrics.evictions < 0))
          => loaded.exc # "none"
    /\ (last.op = "load" /\ loaded.exc = "none")
          => (loaded.s.hits >= 0 /\ loaded.s.misses >= 0 /\ loaded.s.evictions >= 0)

\* ------------------------------------------------ the tiers of MobileCache
\* C14: MobileCache.get never surfaces an error to the caller, with either
\* memory-tier variant: a failed disk read or promotion is a miss or a value.
C14_GetNeverRaises ==
    last.op = "mget" => last.exc = "none"

\* C15: when the disk write of MobileCache.put fails, put returns normally and
\* the memory tier holds (k, v), so that a get(k) that follows returns v.
C15_PutSurvivesDiskFailure ==
    (last.op = "mput" /\ last.io # "ok")
        => /\ last.exc = "none"
           /\ Contains(mem.cache, last.key)
           /\ Lookup(mem.cache, last.key) = last.arg
           /\ \A io \in IO :
                LET again == MobileGet(mem, disk, last.key, io)
                IN again.exc = "none" /\ again.val = last.arg

\* A step that is a call of MobileCache.remove.
IsRemove == last'.op = "mremove" /\ steps' = steps + 1
\* What remove leaves behind whatever it returns: memory as it was, the other
\* disk entries as they were, and a resident key still answered from memory
\* after a remove that returned true.
RemoveFrame ==
    /\ mem' = mem
    /\ \A k \in Keys \ {last'.key} : disk'[k] = disk[k]
    /\ (last'.val = BoolV(TRUE))
          => /\ ~disk'[last'.key].present
             /\ Contains(mem.cache, last'.key)
                   => \A io \in IO :
                        MobileGet(mem', disk', last'.key, io).val
                            = Lookup(mem.cache, last'.key)

\* C16 as stated: MobileCache.remove(k) deletes k from the disk tier only,
\* returns true exactly when a disk entry for k existed and leaves the memory
\* tier unchanged, so get(k) after a remove that returned true still returns
\* the value of a key resident in memory.
C16_RemoveTrueIffEntryExisted ==
    [][IsRemove => /\ last'.val = BoolV(disk[last'.key].present)
                   /\ RemoveFrame]_vars

\* C16 amended: remove returns true exactly when a disk entry for k existed
\* and its file was unlinked; when the unlink fails it returns false and the
\* entry stays; when the cache directory cannot be searched it raises
\* PermissionError and the entry stays. The memory tier is unchanged in every
\* case.
C16_RemoveTrueIffEntryUnlinked ==
    [][IsRemove => /\ (last'.exc = "PermissionError") = (last'.io = "denied")
                   /\ last'.exc \in {"none", "PermissionError"}
                   /\ (last'.exc = "none")
                         => last'.val = BoolV(disk[last'.key].present /\ last'.io = "ok")
                   /\ (last'.val # BoolV(TRUE)) => disk'[last'.key] = disk[last'.key]
                   /\ RemoveFrame]_vars

C16_Witness ==
    /\ last.op = "mremove"
    /\ last.val = BoolV(TRUE)
    /\ Contains(mem.cache, last.key)
    /\ ~disk[last.key].present

\* ------------------------------------------------- threads calling get_stats
\* A thread starts cache.get_stats().
TCallStats(t) ==
    /\ pc[t] = "idle"
    /\ steps < MaxCalls
    /\ call' = [call EXCEPT ![t] = [Call("get_stats", 0, NoneV, Plain) EXCEPT !.t = t]]
    /\ Goto(t, "acquire")
    /\ steps' = steps + 1
    /\ UNCHANGED <<mem, last, lock, snap, seqVars>>

\* A get_stats of SizedLRUCache that calls super().get_stats() from inside
\* its own with block: the lock is still held when it is taken again.
TStatsBaseHoldsLock(t) ==
    /\ pc[t] = "stats_base"
    /\ call' = [call EXCEPT ![t].val = LRUGetStats(mem)]
    /\ UNCHANGED lock
    /\ Goto(t, IF mem.kind = "sized" THEN "stats_acquire" ELSE "release")
    /\ UNCHANGED <<mem, last, snap, steps, seqVars>>

\* LRUCache.get_stats: the dict is built under the lock. An LRUCache returns
\* it; SizedLRUCache.get_stats got it from super().get_stats(), whose with
\* block has released the lock, and goes on to take the lock again.
TStatsBase(t) ==
    /\ pc[t] = "stats_base"
    /\ call' = [call EXCEPT ![t].val = LRUGetStats(mem)]
    /\ IF mem.kind = "sized"
       THEN lock' = 0 /\ Goto(t, "stats_acquire")
       ELSE UNCHANGED lock /\ Goto(t, "release")
    /\ UNCHANGED <<mem, last, snap, steps, seqVars>>

\* SizedLRUCache.get_stats: with self._lock, the second time.
TStatsAcquire(t) ==
    /\ pc[t] = "stats_acquire"
    /\ CanAcquire(t)
    /\ lock' = t
    /\ Goto(t, "stats_size")
    /\ UNCHANGED <<mem, last, call, snap, steps, seqVars>>

\* stats.update({...}): the size fields are added to the dict.
StatsUpdate(d, s) ==
    [base |-> d,
     current_size_bytes |-> s.current_size_bytes,
     max_size_bytes |-> s.max_size_bytes,
     size_utilization |-> IF s.max_size_bytes > 0
                          THEN <<s.current_size_bytes, s.max_size_bytes>>
                          ELSE <<0, 1>>]

TStatsSize(t) ==
    /\ pc[t] = "stats_size"
    /\ call' = [call EXCEPT ![t].val = StatsUpdate(call[t].val, mem)]
    /\ Goto(t, "release")
    /\ UNCHANGED <<mem, last, lock, snap, steps, seqVars>>

\* The threads call get, put and get_stats; the counters and the running
\* total are what get_stats reads, so one value is put.
StatsValues == {IntV(1)}
NextStats ==
    \E t \in Threads :
        \/ \E k \in ThreadKeys : TCallGet(t, k)
        \/ \E k \in ThreadKeys, v \in StatsValues : TCallPut(t, k, v)
        \/ TCallStats(t)
        \/ TAcquire(t)
        \/ TGetCheck(t)
        \/ TGetMove(t)
        \/ TGetRead(t)
        \/ TPutCheck(t)
        \/ TPutSet(t)
        \/ TPutEvict(t)
        \/ TEvictCount(t)
        \/ TSizedCheck(t)
        \/ TSizedBody(t)
        \/ TStatsBase(t)
        \/ TStatsAcquire(t)
        \/ TStatsSize(t)
        \/ TRelease(t)

SpecStats == InitThreads /\ [][NextStats]_vars

\* C17: every get_stats result on a memory-tier cache reflects one single
\* state of the cache, whatever the interleaving: all its fields, the size
\* fields of a SizedLRUCache included, are the values the cache held together
\* at the instant the call first took the lock.
C17_StatsAreOneSnapshot ==
    last.op = "get_stats" => last.val = MemGetStats(before)

\* A get_stats on a SizedLRUCache has returned, and another thread changed the
\* cache between its two critical sections.
C17_Witness ==
    /\ last.op = "get_stats"
    /\ mem.kind = "sized"
    /\ mem # before
    /\ last.val = MemGetStats(before)

\* ------------------------------------------ threads saving and reading a file
\* The calls of save and load the threads make in all: a load, the save that
\* writes past what the load has read, and the save that cuts the file again,
\* after the put that makes the document grow.
MaxSaveCalls == 4
\* A thread starts cache.save(filepath).
TCallSave(t) ==
    /\ pc[t] = "idle"
    /\ steps < MaxSaveCalls
    /\ call' = [call EXCEPT ![t] = [Call("save", 0, NoneV, Plain) EXCEPT !.t = t]]
    /\ Goto(t, "acquire")
    /\ steps' = steps + 1
    /\ UNCHANGED <<mem, last, lock, snap, seqVars>>

\* save: data = {...} is built under the lock, and the with block ends.
TSaveSnapshot(t) ==
    /\ pc[t] = "save_snap"
    /\ call' = [call EXCEPT ![t].val = SaveDocument(mem)]
    /\ lock' = 0
    /\ Goto(t, "save_open")
    /\ UNCHANGED <<mem, last, snap, steps, seqVars>>

\* save: open(filepath, "w"), with the lock released: the file at the path is
\* cut to length zero before anything is written.
TSaveOpen(t) ==
    /\ pc[t] = "save_open"
    /\ file' = OpenForWrite
    /\ Goto(t, "save_dump")
    /\ UNCHANGED <<mem, last, lock, call, snap, steps, stats, loaded, saved,
                   touched, fresh, sizing, fs, disk, before>>

\* save: json.dump(data, f) and the close of the file; save returns. Each
\* saver writes through its own file object, from the start of the file.
TSaveDump(t) ==
    /\ pc[t] = "save_dump"
    /\ file' = DumpInto(file, call[t].val)
    /\ saved' = snap[t]
    /\ before' = snap[t]
    /\ last' = [call[t] EXCEPT !.val = NoneV]
    /\ call' = [call EXCEPT ![t] = NoCall]
    /\ snap' = [snap EXCEPT ![t] = NoSnap]
    /\ Goto(t, "idle")
    /\ UNCHANGED <<mem, lock, steps, stats, loaded, touched, fresh, sizing, fs, disk>>

\* A thread starts LRUCache.load(filepath): open(filepath, "r"), which raises
\* FileNotFoundError when there is no file at the path.
TLoadOpen(t) ==
    /\ pc[t] = "idle"
    /\ steps < MaxSaveCalls
    /\ steps' = steps + 1
    /\ IF file.exists
       THEN /\ call' = [call EXCEPT ![t] = [Call("load", 0, NoneV, Plain) EXCEPT !.t = t]]
            /\ Goto(t, "load_stat")
            /\ UNCHANGED <<last, loaded>>
       ELSE /\ loaded' = Raised("FileNotFoundError")
            /\ last' = [Call("load", 0, NoneV, [Plain EXCEPT !.exc = "FileNotFoundError"])
                        EXCEPT !.t = t]
            /\ UNCHANGED <<pc, call>>
    /\ UNCHANGED <<mem, lock, snap, stats, file, saved, touched, fresh, sizing, fs, disk,
                   before>>

\* json.load(f) is json.loads(f.read()), and f.read() starts with the fstat
\* by which it sizes its buffer.
TLoadStat(t) ==
    /\ pc[t] = "load_stat"
    /\ call' = [call EXCEPT ![t].bufsize = FirstBufferSize(file)]
    /\ Goto(t, "load_read")
    /\ UNCHANGED <<mem, last, lock, snap, steps, stats, loaded, file, saved, touched,
                   fresh, sizing, fs, disk, before>>

\* One read of f.read(): what the file holds by now from where the last read
\* ended, as far as the buffer has room. When it returns nothing the text is
\* complete: json.loads parses it and load goes on to its end.
TLoadRead(t) ==
    /\ pc[t] = "load_read"
    /\ LET bufsize == RoomFor(call[t].bufsize, Len(call[t].buf))
           got == ReadAt(file, Len(call[t].buf), bufsize - Len(call[t].buf))
           r == LoadText("lru", call[t].buf)
       IN IF got # <<>>
          THEN /\ call' = [call EXCEPT ![t].bufsize = bufsize, ![t].buf = @ \o got]
               /\ UNCHANGED <<pc, last, loaded>>
          ELSE /\ loaded' = r
               /\ last' = [call[t] EXCEPT !.exc = r.exc, !.bufsize = 0, !.buf = <<>>]
               /\ call' = [call EXCEPT ![t] = NoCall]
               /\ Goto(t, "idle")
    /\ UNCHANGED <<mem, lock, snap, steps, stats, file, saved, touched, fresh, sizing, fs,
                   disk, before>>

NextSave ==
    \E t \in Threads :
        \/ \E k \in ThreadKeys, v \in ThreadValues : TCallPut(t, k, v)
        \/ TCallSave(t)
        \/ TLoadOpen(t)
        \/ TLoadStat(t)
        \/ TLoadRead(t)
        \/ TAcquire(t)
        \/ TPutCheck(t)
        \/ TPutSet(t)
        \/ TPutEvict(t)
        \/ TEvictCount(t)
        \/ TSizedCheck(t)
        \/ TSizedBody(t)
        \/ TSaveSnapshot(t)
        \/ TSaveOpen(t)
        \/ TSaveDump(t)
        \/ TRelease(t)

\* The cache, and at the save path no file or the file of an earlier save.
InitSave ==
    /\ mem \in {NewLRUCache(c) : c \in 1..MaxCap} \cup {NewSizedLRUCache(b) : b \in Budgets}
    /\ saved = mem
    /\ disk = EmptyDisk
    /\ file \in {NoTextFile, DumpInto(NoTextFile, SaveDocument(mem))}
    /\ fs = NoFiles
    /\ InitCommon

SpecSave == InitSave /\ [][NextSave]_vars

\* C13: while a save is in progress, or after it was interrupted at any point,
\* the file at the path is the complete previous contents (or absent) or the
\* complete new document, and a reader never gets an empty or cut document.
C13_ReaderSeesWholeDocument ==
    /\ file.exists => JsonLoads(file.text).ok
    /\ last.op = "load" => loaded.exc # "JSONDecodeError"

\* ------------------------------------------------------ the eviction counter
\* Both memory-tier variants under the calls that work on the instance.
InitMem == Init \/ InitSized
NextMem ==
    \/ \E k \in Keys : Get(k)
    \/ \E k \in Keys, v \in Values : Put(k, v)
    \/ GetStats
SpecMem == InitMem /\ [][NextMem]_vars

\* The entries a step removed: those resident before, and the one the step
\* inserted, that are not resident after.
Inserted == IF KeysOf(mem'.cache) \ KeysOf(mem.cache) = {} THEN 0 ELSE 1
Removed == Len(mem.cache) + Inserted - Len(mem'.cache)

\* C18: in both variants the eviction counter increases by exactly one for
\* each entry removed by eviction and is changed by nothing else; and on an
\* LRUCache started empty, evictions = (number of puts of a key that was not
\* resident) - (number of resident entries).
C18_EvictionsCountRemovals ==
    /\ [](mem.kind = "lru" => mem.evictions = fresh - Len(mem.cache))
    /\ [][mem'.evictions = mem.evictions + Removed]_vars

\* Three puts of new keys on an LRUCache of capacity 1: two evictions.
C18_Witness ==
    /\ mem.kind = "lru"
    /\ last.op = "put"
    /\ fresh = 3
    /\ mem.evictions = 2
    /\ Len(mem.cache) = 1

\* --------------------------------------------- SizedLRUCache.put, step by step
\* Eviction from the LRU end while the free space is short of need.
RECURSIVE EvictWhileShort(_, _, _, _)
EvictWhileShort(c, total, budget, need) ==
    IF budget - total < need /\ c # <<>>
    THEN EvictWhileShort(Tail(c), total - SizeOf(c[1].key, c[1].value), budget, need)
    ELSE [cache |-> c, total |-> total]

\* Eviction from the LRU end while the total is above the budget.
RECURSIVE EvictWhileOver(_, _, _)
EvictWhileOver(c, total, budget) ==
    IF total > budget /\ c # <<>>
    THEN EvictWhileOver(Tail(c), total - SizeOf(c[1].key, c[1].value), budget)
    ELSE [cache |-> c, total |-> total]

\* A step that is a put of an item within the budget on a SizedLRUCache.
IsSizedPut ==
    /\ mem.kind = "sized"
    /\ last'.op = "put"
    /\ steps' = steps + 1
    /\ SizeOf(last'.key, last'.arg) <= mem.max_size_bytes

\* C19: a SizedLRUCache put of a non-resident key k with item_size within the
\* budget evicts from the LRU end only while (budget - total) < item_size,
\* then completes with k resident at the MRU end holding v and the running
\* total equal to the total after those evictions plus item_size.
C19_PutNewKeyAccountsSize ==
    [][(IsSizedPut /\ ~Contains(mem.cache, last'.key)) =>
         LET item_size == SizeOf(last'.key, last'.arg)
             e == EvictWhileShort(mem.cache, mem.current_size_bytes,
                                  mem.max_size_bytes, item_size)
         IN /\ last'.exc = "none"
            /\ mem'.cache = Append(e.cache, [key |-> last'.key, value |-> last'.arg])
            /\ mem'.current_size_bytes = e.total + item_size]_vars

\* C20: a SizedLRUCache put on a resident key k with the new item size within
\* the budget replaces the value, moves k to the MRU end, changes the running
\* total by (new size - old size) and then evicts from the LRU end while the
\* total exceeds the budget; k itself is never evicted by this put.
C20_PutResidentKeyAccountsSize ==
    [][(IsSizedPut /\ Contains(mem.cache, last'.key)) =>
         LET k == last'.key
             new_size == SizeOf(k, last'.arg)
             old_size == SizeOf(k, Lookup(mem.cache, k))
             e == EvictWhileOver(MoveToEnd(SetItem(mem.cache, k, last'.arg), k),
                                 mem.current_size_bytes - old_size + new_size,
                                 mem.max_size_bytes)
         IN /\ last'.exc = "none"
            /\ mem'.cache = e.cache
            /\ mem'.current_size_bytes = e.total
            /\ Contains(mem'.cache, k)
            /\ Lookup(mem'.cache, k) = last'.arg]_vars

\* ------------------------------------------------- a put keeps its own key
\* C25: in an LRUCache of any capacity C >= 1, C = 1 included, immediately
\* after put(k, v) completes k is resident with value v and get(k) returns v:
\* the eviction of a put never removes the key the same put wrote, new or
\* already resident.
C25_PutKeepsItsKey ==
    (last.op = "put" /\ mem.kind = "lru")
        => /\ last.exc = "none"
           /\ Contains(mem.cache, last.key)
           /\ Lookup(mem.cache, last.key) = last.arg
           /\ LRUGet(mem, last.key).val = last.arg
           /\ LRUGet(mem, last.key).hit

\* A put of a new key on a full LRUCache of capacity 1 has evicted the one
\* resident entry, twice over as in test_capacity_one continued.
C25_Witness ==
    /\ last.op = "put"
    /\ mem.kind = "lru"
    /\ mem.capacity = 1
    /\ mem.evictions = 2
    /\ KeysOf(mem.cache) = {last.key}
    /\ Lookup(mem.cache, last.key) = last.arg

\* ------------------------------------------------------- the running total
\* A SizedLRUCache whose size_of answers differently from call to call.
DriftKeys == {1, 2}
DriftValues == {IntV(1), TupleV(<<1, 2>>)}
Growths == {g \in [item : Growth, old : Growth, evicted : [Keys -> Growth]] :
              \A k \in Keys \ DriftKeys : g.evicted[k] = 0}

\* put(key, value) on the SizedLRUCache, size_of answering as grown tells.
\* sizing keeps, for each resident key, what size_of answered when its value
\* was stored, and how far from that its answer for the old value was.
PutGrown(k, v, grown) ==
    /\ steps < MaxOps
    /\ mem.kind = "sized"
    /\ LET r == SizedPutGrown(mem, k, v, grown)
           item_size == SizeOfGrown(grown.item, k, v)
           accepted == item_size <= mem.max_size_bytes
           resized == accepted /\ Contains(mem.cache, k)
       IN /\ mem' = r.s
          /\ last' = Call("put", k, v, r)
          /\ sizing' =
               [stored |-> [j \in Keys |->
                              IF ~Contains(r.s.cache, j) THEN 0
                              ELSE IF j = k /\ accepted THEN item_size
                              ELSE sizing.stored[j]],
                drift |-> IF resized
                          THEN SizeOfGrown(grown.old, k, Lookup(mem.cache, k))
                                   - sizing.stored[k]
                          ELSE 0]
    /\ touched' = Touch(touched, k)
    /\ fresh' = IF Contains(mem.cache, k) THEN fresh ELSE fresh + 1
    /\ stats' = NoStats
    /\ loaded' = NotLoaded
    /\ steps' = steps + 1
    /\ UNCHANGED threadVars
    /\ UNCHANGED <<file, saved, disk, fs>>

NextDrift ==
    \/ \E k \in DriftKeys : Get(k)
    \/ \E k \in DriftKeys, v \in DriftValues, grown \in Growths : PutGrown(k, v, grown)
SpecDrift == InitSized /\ [][NextDrift]_vars

\* C23: in a SizedLRUCache the running size total stays within
\* 0 <= running total <= budget after every operation of any sequence of
\* puts and gets, also when size_of answers a different size for an entry
\* at a later call (the eviction, or the replacement of its value) than it
\* answered when the entry was inserted.
C23_TotalWithinBudget ==
    mem.kind = "sized"
        => (0 <= mem.current_size_bytes
            /\ mem.current_size_bytes <= mem.max_size_bytes)

\* A put on a resident key for whose old value size_of answered otherwise
\* than when that value was stored, and the running total is within bounds.
C23_Witness ==
    /\ mem.kind = "sized"
    /\ last.op = "put"
    /\ sizing.drift # 0
    /\ Contains(mem.cache, last.key)
    /\ 0 <= mem.current_size_bytes
    /\ mem.current_size_bytes <= mem.max_size_bytes

\* ------------------------------------------------ threads on one DiskCache
\* DiskCache has no lock: put is open, dump, replace, each a step on the
\* files, and all puts of a key use the same .tmp path. A thread that stops
\* between two steps is a crash at that step.
diskVars == <<mem, disk, stats, loaded, file, saved, touched, fresh, sizing, lock, snap, before>>

\* DiskCache.get on the files: None when there is no file or the unpickler
\* raises an error that get catches; any other error is raised.
FsGet(f, k) ==
    IF f.pub[k] = 0 THEN [val |-> NoneV, exc |-> "none"]
    ELSE LET r == PickleLoadBytes(f.data[f.pub[k]])
         IN IF r.exc \in {"OSError", "UnpicklingError"}
            THEN [val |-> NoneV, exc |-> "none"]
            ELSE r

\* A thread starts disk.put(k, v).
TDCallPut(t, k, v) ==
    /\ pc[t] = "idle"
    /\ steps < MaxCalls
    /\ call' = [call EXCEPT ![t] = [Call("dput", k, v, Plain) EXCEPT !.t = t]]
    /\ Goto(t, "dput_open")
    /\ steps' = steps + 1
    /\ UNCHANGED <<fs, last, diskVars>>

\* put: open(temp_filepath, 'wb'): the file at the .tmp path is created, or
\* the one that is there is cut to length zero.
TDOpen(t) ==
    /\ pc[t] = "dput_open"
    /\ LET k == call[t].key
           i == IF fs.tmp[k] # 0 THEN fs.tmp[k] ELSE FreshInode(fs)
       IN fs' = [fs EXCEPT !.tmp[k] = i, !.fd[t] = i, !.data[i] = <<>>]
    /\ Goto(t, "dput_dump")
    /\ UNCHANGED <<call, last, steps, diskVars>>

\* put: pickle.dump(value, f) and the close of f: the bytes go to the start
\* of the file f was opened on, whatever path names that file by now.
TDDump(t) ==
    /\ pc[t] = "dput_dump"
    /\ fs' = Collect([fs EXCEPT !.data[fs.fd[t]] = Overwrite(@, PickleBytes(call[t].arg)),
                                !.fd[t] = 0])
    /\ Goto(t, "dput_replace")
    /\ UNCHANGED <<call, last, steps, diskVars>>

\* put: temp_filepath.replace(filepath); FileNotFoundError when the .tmp path
\* is gone, which enters the except block.
TDReplace(t) ==
    /\ pc[t] = "dput_replace"
    /\ LET k == call[t].key
       IN IF fs.tmp[k] # 0
          THEN /\ fs' = Collect([fs EXCEPT !.pub[k] = fs.tmp[k], !.tmp[k] = 0])
               /\ Goto(t, "dreturn")
               /\ UNCHANGED call
          ELSE /\ call' = [call EXCEPT ![t].exc = "FileNotFoundError"]
               /\ Goto(t, "dput_cleanup")
               /\ UNCHANGED fs
    /\ UNCHANGED <<last, steps, diskVars>>

\* put, except block: if temp_filepath.exists(): temp_filepath.unlink(); raise
TDCleanup(t) ==
    /\ pc[t] = "dput_cleanup"
    /\ fs' = Collect([fs EXCEPT !.tmp[call[t].key] = 0])
    /\ Goto(t, "dreturn")
    /\ UNCHANGED <<call, last, steps, diskVars>>

\* put returns or raises.
TDReturn(t) ==
    /\ pc[t] = "dreturn"
    /\ last' = call[t]
    /\ call' = [call EXCEPT ![t] = NoCall]
    /\ Goto(t, "idle")
    /\ UNCHANGED <<fs, steps, diskVars>>

\* A thread starts disk.get(k).
TDCallGet(t, k) ==
    /\ pc[t] = "idle"
    /\ steps < MaxCalls
    /\ call' = [call EXCEPT ![t] = [Call("dget", k, NoneV, Plain) EXCEPT !.t = t]]
    /\ Goto(t, "dget_exists")
    /\ steps' = steps + 1
    /\ UNCHANGED <<fs, last, diskVars>>

\* get: if not filepath.exists(): return None. The call is outside the try
\* block: in a directory that is not searchable its PermissionError is raised.
TDExists(t, io) ==
    /\ pc[t] = "dget_exists"
    /\ io \in {"ok", "denied"}
    /\ call' = [call EXCEPT ![t].io = io,
                            ![t].exc = IF io = "denied" THEN "PermissionError" ELSE "none"]
    /\ Goto(t, IF io = "ok" /\ fs.pub[call[t].key] # 0 THEN "dget_open" ELSE "dreturn")
    /\ UNCHANGED <<fs, last, steps, diskVars>>

\* get: open(filepath, 'rb'), on the file the path names by now; an OSError
\* is caught and get returns None.
TDOpenRead(t, io) ==
    /\ pc[t] = "dget_open"
    /\ io \in {"ok", "fail"}
    /\ call' = [call EXCEPT ![t].io = io]
    /\ IF io = "ok" /\ fs.pub[call[t].key] # 0
       THEN /\ fs' = [fs EXCEPT !.fd[t] = fs.pub[call[t].key]]
            /\ Goto(t, "dget_load")
       ELSE /\ Goto(t, "dreturn")
            /\ UNCHANGED fs
    /\ UNCHANGED <<last, steps, diskVars>>

\* What get makes of pickle.load(f) on the bytes read, and the close of f: an
\* OSError or PickleError is caught (None), any other error is raised.
LoadReturnDisk(t, bytes) ==
    /\ LET r == PickleLoadBytes(bytes)
       IN call' = IF r.exc \in {"OSError", "UnpicklingError"}
                  THEN [call EXCEPT ![t].val = NoneV]
                  ELSE [call EXCEPT ![t].val = r.val, ![t].exc = r.exc]
    /\ fs' = Collect([fs EXCEPT !.fd[t] = 0])
    /\ Goto(t, "dreturn")

\* get: value = pickle.load(f), the first read of the opened file: a file
\* of a few bytes arrives whole; when nothing arrives the unpickler reads
\* once more before it gives up.
TDLoad(t) ==
    /\ pc[t] = "dget_load"
    /\ IF fs.data[fs.fd[t]] # <<>>
       THEN LoadReturnDisk(t, fs.data[fs.fd[t]])
       ELSE /\ Goto(t, "dget_more")
            /\ UNCHANGED <<call, fs>>
    /\ UNCHANGED <<last, steps, diskVars>>

\* get: pickle.load(f), the second read: what a writer has put into the file
\* since the first read is unpickled; EOFError when there is still nothing.
TDLoadMore(t) ==
    /\ pc[t] = "dget_more"
    /\ LoadReturnDisk(t, fs.data[fs.fd[t]])
    /\ UNCHANGED <<last, steps, diskVars>>

NextDisk ==
    \E t \in Threads :
        \/ \E k \in ThreadKeys, v \in ThreadValues : TDCallPut(t, k, v)
        \/ \E k \in ThreadKeys : TDCallGet(t, k)
        \/ TDExists(t, "ok")
        \/ TDOpenRead(t, "ok")
        \/ TDLoad(t)
        \/ TDLoadMore(t)
        \/ TDOpen(t)
        \/ TDDump(t)
        \/ TDReplace(t)
        \/ TDCleanup(t)
        \/ TDReturn(t)

InitDisk ==
    /\ mem = NewLRUCache(1)
    /\ saved = mem
    /\ disk = EmptyDisk
    /\ file = NoFile
    /\ fs = NoFiles
    /\ InitCommon

SpecDisk == InitDisk /\ [][NextDisk]_vars

\* C22: the published file of a key always holds the complete serialized
\* value of a put, and DiskCache.get never observes a partially written or
\* mixed blob, whatever step a put stops at and however two puts of the same
\* key interleave.
C22_PublishedFileIsWhole ==
    /\ \A k \in ThreadKeys :
          fs.pub[k] # 0 => fs.data[fs.pub[k]] \in {PickleBytes(v) : v \in ThreadValues}
    /\ last.op = "dget" => (last.exc = "none" /\ last.val \in ThreadValues \cup {NoneV})

\* ------------------------------------------- threads on one MobileCache
\* MobileCache has no lock of its own: each call is a sequence of calls on
\* the tiers, and other threads run in between. A call on the memory tier is
\* atomic (it holds the instance's lock); DiskCache.put is not, it is the
\* steps open, dump, replace on the files of the cache directory.
\* The cache directory holds an earlier value; the puts write a later one.
OlderValue == IntV(1)
NewerValue == IntV(2)

\* The cache directory with an entry file for each key of the set present:
\* it holds the earlier value, or nothing for a key of the set cut, the file
\* two interleaved puts leave (the open of one between the dump and the
\* replace of the other, and no dump after).
InitialFiles(present, cut) ==
    [NoFiles EXCEPT
       !.pub = [k \in ThreadKeys |-> IF k \in present THEN k ELSE 0],
       !.data = [i \in Inodes |-> IF i \in present \ cut
                                  THEN PickleBytes(OlderValue) ELSE <<>>]]

InitMobileThreads ==
    /\ mem \in {NewLRUCache(c) : c \in 1..MaxCap} \cup {NewSizedLRUCache(b) : b \in Budgets}
    /\ saved = mem
    /\ disk = EmptyDisk
    /\ file = NoFile
    /\ fs \in {InitialFiles(present, cut) : present \in SUBSET ThreadKeys,
                                             cut \in SUBSET ThreadKeys}
    /\ InitCommon

\* What the calls on the two tiers leave alone (the entry files are fs).
mobVars == <<stats, loaded, file, saved, touched, fresh, sizing, disk, lock, snap, before>>

\* A thread starts mobile.get(k).
TMCallGet(t, k) ==
    /\ pc[t] = "idle"
    /\ steps < MaxCalls
    /\ call' = [call EXCEPT ![t] = [Call("mget", k, NoneV, Plain) EXCEPT !.t = t]]
    /\ Goto(t, "mget_mem")
    /\ steps' = steps + 1
    /\ UNCHANGED <<mem, fs, last, mobVars>>

\* get: value = self._memory_cache.get(key); if value is not None: return value
TMGetMem(t) ==
    /\ pc[t] = "mget_mem"
    /\ LET r == MemGet(mem, call[t].key)
       IN /\ mem' = r.s
          /\ call' = [call EXCEPT ![t].val = r.val, ![t].hit = r.hit]
          /\ Goto(t, IF r.val # NoneV THEN "mreturn" ELSE "dget_exists")
    /\ UNCHANGED <<fs, last, steps, mobVars>>

\* get: value = self._disk_cache.get(key) has returned or raised (the steps
\* TDExists, TDOpenRead, TDLoad of DiskCache.get ran in between); if value is
\* not None: promote. What DiskCache.get raised leaves MobileCache.get.
TMGetDisk(t) ==
    /\ pc[t] = "dreturn"
    /\ call[t].op = "mget"
    /\ call' = [call EXCEPT ![t].dq = TRUE]
    /\ Goto(t, IF call[t].exc = "none" /\ call[t].val # NoneV
               THEN "mget_promote" ELSE "mreturn")
    /\ UNCHANGED <<mem, fs, last, steps, mobVars>>

\* get: self._memory_cache.put(key, value); return value
TMGetPromote(t) ==
    /\ pc[t] = "mget_promote"
    /\ LET p == MemPut(mem, call[t].key, call[t].val)
       IN /\ mem' = p.s
          /\ call' = IF p.exc # "none"
                     THEN [call EXCEPT ![t].exc = p.exc, ![t].val = NoneV]
                     ELSE call
    /\ Goto(t, "mreturn")
    /\ UNCHANGED <<fs, last, steps, mobVars>>

\* A thread starts mobile.put(k, v).
TMCallPut(t, k, v) ==
    /\ pc[t] = "idle"
    /\ steps < MaxCalls
    /\ call' = [call EXCEPT ![t] = [Call("mput", k, v, Plain) EXCEPT !.t = t]]
    /\ Goto(t, "mput_mem")
    /\ steps' = steps + 1
    /\ UNCHANGED <<mem, fs, last, mobVars>>

\* put: self._memory_cache.put(key, value), outside the try block.
TMPutMem(t) ==
    /\ pc[t] = "mput_mem"
    /\ LET p == MemPut(mem, call[t].key, call[t].arg)
       IN /\ mem' = p.s
          /\ call' = [call EXCEPT ![t].exc = p.exc]
          /\ Goto(t, IF p.exc # "none" THEN "mreturn" ELSE "dput_open")
    /\ UNCHANGED <<fs, last, steps, mobVars>>

\* put: self._disk_cache.put(key, value) has returned or raised (the steps
\* TDOpen, TDDump, TDReplace, TDCleanup of DiskCache.put ran in between);
\* except (OSError, Exception): pass swallows what it raised.
TMPutDisk(t) ==
    /\ pc[t] = "dreturn"
    /\ call[t].op = "mput"
    /\ call' = [call EXCEPT ![t].exc = "none"]
    /\ Goto(t, "mreturn")
    /\ UNCHANGED <<mem, fs, last, steps, mobVars>>

\* The call returns or raises.
TMReturn(t) ==
    /\ pc[t] = "mreturn"
    /\ last' = call[t]
    /\ call' = [call EXCEPT ![t] = NoCall]
    /\ Goto(t, "idle")
    /\ UNCHANGED <<mem, fs, steps, mobVars>>

NextMobileThreads ==
    \E t \in Threads :
        \/ \E k \in ThreadKeys : TMCallGet(t, k)
        \/ \E k \in ThreadKeys : TMCallPut(t, k, NewerValue)
        \/ TMGetMem(t)
        \/ \E io \in IO : TDExists(t, io)
        \/ \E io \in IO : TDOpenRead(t, io)
        \/ TDLoad(t)
        \/ TDLoadMore(t)
        \/ TMGetDisk(t)
        \/ TMGetPromote(t)
        \/ TMPutMem(t)
        \/ TDOpen(t)
        \/ TDDump(t)
        \/ TDReplace(t)
        \/ TDCleanup(t)
        \/ TMPutDisk(t)
        \/ TMReturn(t)

SpecMobileThreads == InitMobileThreads /\ [][NextMobileThreads]_vars

\* C21: under any interleaving of MobileCache.get and MobileCache.put calls
\* on one key K, once all calls have completed the memory tier never holds
\* for K a value older than the value the disk tier holds for K.
C21_MemoryNotOlderThanDisk ==
    (\A t \in Threads : pc[t] = "idle")
        => \A k \in ThreadKeys :
             ~(/\ Contains(mem.cache, k)
               /\ Lookup(mem.cache, k) = OlderValue
               /\ FsGet(fs, k) = [val |-> NewerValue, exc |-> "none"])

\* ------------------------------------- every call returns: get, put, stats, save
\* The steps of a call in progress of thread t.
TStep(t) ==
    \/ TAcquire(t)
    \/ TGetCheck(t)
    \/ TGetMove(t)
    \/ TGetRead(t)
    \/ TPutCheck(t)
    \/ TPutSet(t)
    \/ TPutEvict(t)
    \/ TEvictCount(t)
    \/ TSizedCheck(t)
    \/ TSizedBody(t)
    \/ TStatsBase(t)
    \/ TStatsAcquire(t)
    \/ TStatsSize(t)
    \/ TSaveSnapshot(t)
    \/ TSaveOpen(t)
    \/ TSaveDump(t)
    \/ TRelease(t)

\* The threads make up to MaxFairCalls calls of get, put, get_stats and save
\* on two keys, which is what it takes to evict from an LRUCache of capacity 1.
MaxFairCalls == 2
FairKeys == {1, 2}
InitFair ==
    /\ mem \in {NewLRUCache(1)} \cup {NewSizedLRUCache(b) : b \in Budgets}
    /\ saved = mem
    /\ disk = EmptyDisk
    /\ file = NoTextFile
    /\ fs = NoFiles
    /\ InitCommon
NextFair ==
    \E t \in Threads :
        \/ steps < MaxFairCalls /\ \E k \in FairKeys : TCallGet(t, k)
        \/ steps < MaxFairCalls /\ \E k \in FairKeys, v \in StatsValues : TCallPut(t, k, v)
        \/ steps < MaxFairCalls /\ TCallStats(t)
        \/ steps < MaxFairCalls /\ TCallSave(t)
        \/ TStep(t)

\* The scheduler runs every thread that can take a step; no thread is obliged
\* to start a call.
SpecFair ==
    InitFair /\ [][NextFair]_vars /\ \A t \in Threads : WF_vars(TStep(t))

\* C24: no call of get, put, get_stats or save deadlocks: no thread waits for
\* the instance lock while holding it, a thread outside its with blocks does
\* not hold the lock (it was released on every exit, an exit by error
\* included), and under fair scheduling every call eventually returns.
C24_EveryCallReturns ==
    /\ [](\A t \in Threads :
            pc[t] \in {"idle", "acquire", "stats_acquire", "save_open", "save_dump"}
                => lock # t)
    /\ \A t \in Threads : (pc[t] # "idle") ~> (pc[t] = "idle")

\* A put has left by AttributeError and another thread holds the lock since.
C24_Witness ==
    /\ last.op = "put"
    /\ last.exc = "AttributeError"
    /\ lock # 0
    /\ lock # last.t

====
